---- MODULE Spec2Model ----
(***************************************************************************)
(* Model of the extraction/linking engine of the MicroStrategy HTML        *)
(* documentation extractor: the recursive metric builder with its visiting *)
(* set and memo, the report/dataset driver, the batch orchestrator and the *)
(* shared parse cache.                                                     *)
(***************************************************************************)
EXTENDS Integers, Sequences, FiniteSets, TLC

(***************************************************************************)
(* Bounds of the model.                                                    *)
(***************************************************************************)
MaxLinks == 3
MaxCalls == 2
MaxRunLinks == 2
MaxAssigns == 1
NThreads == 2
MaxParseCalls == 3
MaxReportLinks == 1
MaxDatasets == 2
MaxExtractions == 2
MaxBatchDatasets == 1
MaxIndex == 2
MaxBytes == 3
MaxSiblings == 2
MaxDsIndex == 2
MaxElements == 2
MaxCacheSize == 2

(***************************************************************************)
(* Text.  A string of the program is a sequence of one-character strings,  *)
(* so that containment, case folding and accent stripping are computed.    *)
(* Identifiers (ids, anchors, file names) are atomic strings; Upper is     *)
(* str.upper() on the hexadecimal ids the model uses.                      *)
(***************************************************************************)
Upper(s) ==
    CASE s = "a" -> "A"
      [] s = "b" -> "B"
      [] s = "c" -> "C"
      [] OTHER -> s

LowerChar(c) ==
    CASE c = "A" -> "a"
      [] c = "B" -> "b"
      [] c = "C" -> "c"
      [] c = "M" -> "m"
      [] c = "R" -> "r"
      [] OTHER -> c

\* unicodedata.normalize('NFKD', c) followed by dropping combining marks:
\* the accented letters of the model lose their accent.
StripAccentChar(c) ==
    CASE c = "e^" -> "e"
      [] c = "E^" -> "E"
      [] c = "i'" -> "i"
      [] OTHER -> c

RECURSIVE StripLeft(_)
StripLeft(t) == IF t # <<>> /\ Head(t) = " " THEN StripLeft(Tail(t)) ELSE t

RECURSIVE StripRight(_)
StripRight(t) ==
    IF t # <<>> /\ t[Len(t)] = " " THEN StripRight(SubSeq(t, 1, Len(t) - 1)) ELSE t

\* find_metric_link.normalize_text: NFKD, drop combining marks, lower, strip
normalize_text(t) ==
    StripRight(StripLeft([i \in 1..Len(t) |-> LowerChar(StripAccentChar(t[i]))]))

\* Python's  a in b  on strings
Contains(a, b) ==
    \E i \in 0..(Len(b) - Len(a)) : SubSeq(b, i + 1, i + Len(a)) = a

(***************************************************************************)
(* The corpus.  Four metrics A, B, C, D are listed in the Metric index; Z  *)
(* is an id that occurs in formulas but in no index entry.                 *)
(***************************************************************************)
Metrics == <<"A", "B", "C", "D">>
FormulaIds == {"A", "B", "C", "Z"}
DatasetIds == {"D1", "D2"}

NameOf(x) ==
    CASE x = "A" -> <<"m", "A">>
      [] x = "B" -> <<"m", "B">>
      [] x = "D" -> <<"m", "D">>
      [] OTHER -> <<"m", "C">>

FileOf(x) == IF x = "C" THEN "f2.html" ELSE "f1.html"

LowerId(x) ==
    CASE x = "A" -> "a"
      [] x = "B" -> "b"
      [] x = "C" -> "c"
      [] OTHER -> x

None == 0

VARIABLES
    corpus,     \* the static snapshot of documents
    memo,       \* MetricExtractor metric cache dict: key -> object reference
    heap,       \* the objects built so far, addressed by reference
    stack,      \* frames of the composite metrics being extracted
    call,       \* arguments of the extract call about to run, or NoCall
    cur,        \* the dataset metric reference being extracted at top level
    results,    \* what each top-level extraction returned, in order
    ncalls,     \* top-level extractions started
    assigned    \* objects whose dataset_id the caller has assigned since

metricVars == <<corpus, memo, heap, stack, call, cur, results, ncalls, assigned>>

\* parsers/base_parser.py: the module-level parse cache and its callers
VARIABLES
    GLOBAL_HTML_CACHE,  \* _GLOBAL_HTML_CACHE: path -> parsed tree
    CACHE_STATS,        \* _CACHE_STATS: hits and misses
    HTML_CACHE_LOCK,    \* _HTML_CACHE_LOCK: 0 when free, else the holder
    HTML_STATS_LOCK,    \* _HTML_STATS_LOCK: 0 when free, else the holder
    ppc,                \* per thread: where it is in parse_html_file
    pcall,              \* per thread: the arguments and locals of its call
    preturns,           \* what every finished call returned or raised
    ntrees              \* trees built so far: BeautifulSoup(content, ...)

parseVars == <<GLOBAL_HTML_CACHE, CACHE_STATS, HTML_CACHE_LOCK, HTML_STATS_LOCK,
               ppc, pcall, preturns, ntrees>>

\* ReportExtractor, DatasetExtractor and ParallelReportExtractor
VARIABLES
    rcorpus,    \* the static snapshot of report and dataset documents
    job,        \* the extract_report call under way: its loops and locals
    outcomes,   \* what every finished extract_report call returned or raised
    batch       \* ParallelReportExtractor.extract_all_reports: its locals

reportVars == <<rcorpus, job, outcomes, batch>>

\* the calls of the stateless functions: link resolution and decoding
VARIABLES
    request,    \* the arguments of the call to make, or NoRequest
    answers     \* what the calls made so far returned or raised

pureVars == <<request, answers>>

\* MemoryCache
VARIABLES
    max_size,   \* self.max_size
    caches,     \* self._caches: per namespace the items, oldest first
    touched,    \* per namespace, its keys in the order of their last set or successful get
    returned    \* the last call of the cache and what it returned

cacheVars == <<max_size, caches, touched, returned>>

NotMetric == <<parseVars, reportVars, pureVars, cacheVars>>

vars == <<metricVars, parseVars, reportVars, pureVars, cacheVars>>

NoCall == [kind |-> "none"]

NoRequest == [kind |-> "none"]

(***************************************************************************)
(* Documents.  A document is the sequence of its object sections in        *)
(* document order; a section has the name of its anchor, whether it holds  *)
(* a definition header, the declared metric type and the hyperlinks of its *)
(* formula cell, each with the kind of the nearest preceding icon.         *)
(***************************************************************************)
Link(img, id) == [img |-> img, id |-> id]

RECURSIVE MetricLinks(_)
MetricLinks(ids) ==
    IF ids = <<>> THEN <<>> ELSE <<Link("Metric", Head(ids))>> \o MetricLinks(Tail(ids))

\* the formula cell of a simple metric: a function link and a fact link
SimpleLinks(x) ==
    CASE x = "A" -> <<Link("", "F1"), Link("", "K1")>>
      [] x = "B" -> <<Link("Function", "F9"), Link("Fact", "K1")>>
      [] OTHER -> <<Link("Function", "F1"), Link("Fact", "K9")>>

Section(x, anchor, formula) ==
    [name |-> anchor, hasDef |-> TRUE,
     tipo |-> IF formula = <<>> THEN "simples" ELSE "composto",
     links |-> IF formula = <<>> THEN SimpleLinks(x) ELSE MetricLinks(formula)]

IndexEntry(name, file, anchor, placeholder) ==
    [name |-> name, file |-> file, anchor |-> anchor, placeholder |-> placeholder]

FunctionIndex == <<IndexEntry(<<"S", "u", "m">>, "fn.html", "F1", "")>>
FactIndex == <<IndexEntry(<<"R", "e", "v">>, "fact.html", "", "K1")>>
TableIndex == <<IndexEntry(<<"T", "1">>, "tab.html", "T1", "")>>

\* extract_fact_logic_tables of the fact document, by anchor
FactTables(anchor) ==
    IF anchor = "K1"
    THEN <<[name |-> <<"T", "1">>, id |-> "T1", column_name |-> "c1"],
           [name |-> <<"T", "9">>, id |-> "T9", column_name |-> "c2"]>>
    ELSE <<>>

AnchorOf(x, lower) == IF x \in lower THEN LowerId(x) ELSE x

MkCorpus(fa, fb, fc, lower, f2) ==
    [metricIndex |->
        [i \in 1..Len(Metrics) |-> IndexEntry(NameOf(Metrics[i]), FileOf(Metrics[i]),
                                   AnchorOf(Metrics[i], lower), "")],
     docs |->
        [f \in {"f1.html", "f2.html"} |->
            IF f = "f1.html"
            THEN <<Section("A", AnchorOf("A", lower), fa),
                   Section("B", AnchorOf("B", lower), fb),
                   Section("D", AnchorOf("D", lower), <<>>)>>
            ELSE <<Section("C", AnchorOf("C", lower), fc)>>],
     files |-> {"f1.html", "fact.html"} \cup (IF f2 THEN {"f2.html"} ELSE {}),
     lower |-> lower,
     formula |-> [x \in {"A", "B", "C", "D"} |->
                    CASE x = "A" -> fa [] x = "B" -> fb [] x = "C" -> fc [] OTHER -> <<>>]]

LowerSets == {{}, {"A", "B"}}

(***************************************************************************)
(* Parsing of a metric definition (parsers/metric_parser.py).              *)
(***************************************************************************)
Min(S) == CHOOSE m \in S : \A n \in S : m <= n

\* _find_definition_section: index of the section whose definition header
\* is used, or 0.  The anchor is looked up by exact name; with an anchor
\* tag the first definition at or after it in document order wins, else the
\* first definition of the document.
find_definition_section(doc, anchor) ==
    LET tags == {i \in 1..Len(doc) : anchor # "" /\ doc[i].name = anchor}
        defs == {i \in 1..Len(doc) : doc[i].hasDef}
        after == IF tags = {} THEN {} ELSE {j \in defs : j >= Min(tags)}
    IN  IF after # {} THEN Min(after)
        ELSE IF defs # {} THEN Min(defs)
        ELSE 0

\* _extract_formula_components: the function id and fact id of the formula
\* cell, by icon kind, with the positional fallback when no icon precedes.
RECURSIVE formula_components(_, _)
formula_components(links, acc) ==
    IF links = <<>> THEN acc
    ELSE LET l == Head(links)
             acc1 ==
                CASE l.img = "Function" ->
                        IF acc.function_id = "" THEN [acc EXCEPT !.function_id = l.id] ELSE acc
                  [] l.img = "Fact" ->
                        IF acc.fact_id = "" THEN [acc EXCEPT !.fact_id = l.id] ELSE acc
                  [] l.img = "" ->
                        IF acc.function_id = "" THEN [acc EXCEPT !.function_id = l.id]
                        ELSE IF acc.fact_id = "" THEN [acc EXCEPT !.fact_id = l.id]
                        ELSE acc
                  [] OTHER -> acc
         IN  formula_components(Tail(links), acc1)

InSeq(x, s) == \E i \in 1..Len(s) : s[i] = x

\* _extract_child_metric_ids: ids of the links that follow a Metric icon,
\* in document order, an id already collected is not collected again.
RECURSIVE extract_child_metric_ids(_, _)
extract_child_metric_ids(links, acc) ==
    IF links = <<>> THEN acc
    ELSE LET l == Head(links)
         IN  extract_child_metric_ids(Tail(links),
                IF l.img = "Metric" /\ ~InSeq(l.id, acc) THEN Append(acc, l.id) ELSE acc)

RECURSIVE LinkIds(_)
LinkIds(links) == IF links = <<>> THEN <<>> ELSE <<Head(links).id>> \o LinkIds(Tail(links))

\* extract_metric_definition
extract_metric_definition(doc, anchor) ==
    LET k == find_definition_section(doc, anchor)
    IN  IF k = 0
        THEN [tipo |-> "simples", formula |-> <<>>, function_id |-> "",
              fact_id |-> "", child_metric_ids |-> <<>>]
        ELSE LET sec == doc[k]
                 tipo == IF sec.tipo = "" THEN "simples" ELSE sec.tipo
                 fc == formula_components(sec.links, [function_id |-> "", fact_id |-> ""])
             IN  [tipo |-> tipo, formula |-> LinkIds(sec.links),
                  function_id |-> fc.function_id, fact_id |-> fc.fact_id,
                  child_metric_ids |->
                     IF tipo = "composto"
                     THEN extract_child_metric_ids(sec.links, <<>>) ELSE <<>>]

(***************************************************************************)
(* Link resolution against the per-type indexes.                           *)
(***************************************************************************)
NoLink == [name |-> <<>>, file |-> "", anchor |-> "", found |-> FALSE]
Found(e) == [name |-> e.name, file |-> e.file, anchor |-> e.anchor, found |-> TRUE]

\* find_metric_link: by id on the anchors (case-insensitive), else by name:
\* the first entry whose normalized text equals the normalized name or
\* contains it or is contained in it.
find_metric_link(index, metric_name, metric_id) ==
    LET byId == {i \in 1..Len(index) :
                    metric_id # "" /\ Upper(index[i].anchor) = Upper(metric_id)}
        n == normalize_text(metric_name)
        byName == {i \in 1..Len(index) :
                    LET t == normalize_text(index[i].name)
                    IN  t = n \/ Contains(n, t) \/ Contains(t, n)}
    IN  IF byId # {} THEN Found(index[Min(byId)])
        ELSE IF byName # {} THEN Found(index[Min(byName)])
        ELSE NoLink

\* LinkResolver.find_by_id: anchor or embedded placeholder id, compared
\* case-insensitively; the first entry in index order wins.
find_by_id(index, object_id) ==
    LET hits == {i \in 1..Len(index) :
                    \/ Upper(index[i].anchor) = Upper(object_id)
                    \/ /\ index[i].placeholder # ""
                       /\ Upper(index[i].placeholder) = Upper(object_id)}
    IN  IF hits = {} THEN NoLink
        ELSE LET e == index[Min(hits)]
             IN  [name |-> e.name, file |-> e.file,
                  anchor |-> IF Upper(e.anchor) = Upper(object_id) \/ e.anchor # ""
                             THEN e.anchor ELSE e.placeholder,
                  found |-> TRUE]

\* TextNormalizer.normalize_for_matching: NFKD, drop combining marks, lower,
\* strip
normalize_for_matching(t) ==
    StripRight(StripLeft([i \in 1..Len(t) |-> LowerChar(StripAccentChar(t[i]))]))

\* set(text.split()): the words of a text, split on white space
RECURSIVE SplitWords(_, _, _)
SplitWords(t, word, acc) ==
    IF t = <<>> THEN (IF word = <<>> THEN acc ELSE acc \cup {word})
    ELSE IF Head(t) = " "
    THEN SplitWords(Tail(t), <<>>, IF word = <<>> THEN acc ELSE acc \cup {word})
    ELSE SplitWords(Tail(t), Append(word, Head(t)), acc)

StartsWith(b, a) == Len(a) <= Len(b) /\ SubSeq(b, 1, Len(a)) = a

Max(a, b) == IF a >= b THEN a ELSE b

\* the score find_best_match gives a candidate, as the fraction <<n, d>>;
\* <<0, 1>> when the candidate is passed over (no common word)
word_overlap(target_words, candidate_words) ==
    IF target_words \cap candidate_words = {} THEN <<0, 1>>
    ELSE <<Cardinality(target_words \cap candidate_words),
           Max(Cardinality(target_words), Cardinality(candidate_words))>>

match_score(target_norm, candidate_norm) ==
    IF Contains(target_norm, candidate_norm)
    THEN IF StartsWith(candidate_norm, target_norm)
         THEN <<2 * Len(target_norm) + Len(candidate_norm), 2 * Len(candidate_norm)>>
         ELSE <<Len(target_norm), Len(candidate_norm)>>
    ELSE word_overlap(SplitWords(target_norm, <<>>, {}),
                      SplitWords(candidate_norm, <<>>, {}))

\* score >= threshold, the threshold being 0.8
ScoreAccepted(sc) == 10 * sc[1] >= 8 * sc[2]
ScoreGreater(a, b) == a[1] * b[2] > b[1] * a[2]

NoMatch == [found |-> FALSE, text |-> <<>>]

\* the loop of TextNormalizer.find_best_match over the candidates: an
\* exact normalized match returns at once, a candidate with a higher
\* accepted score becomes the best match
RECURSIVE best_match_loop(_, _, _, _)
RECURSIVE best_match_step(_, _, _, _, _, _)
best_match_step(target_norm, candidates, best_match, best_score, candidate_norm, score) ==
    IF target_norm = candidate_norm
    THEN [found |-> TRUE, text |-> Head(candidates)]
    ELSE IF ScoreGreater(score, best_score) /\ ScoreAccepted(score)
    THEN best_match_loop(target_norm, Tail(candidates),
                         [found |-> TRUE, text |-> Head(candidates)], score)
    ELSE best_match_loop(target_norm, Tail(candidates), best_match, best_score)

best_match_candidate(target_norm, candidates, best_match, best_score, candidate_norm) ==
    best_match_step(target_norm, candidates, best_match, best_score, candidate_norm,
                    match_score(target_norm, candidate_norm))

best_match_loop(target_norm, candidates, best_match, best_score) ==
    IF candidates = <<>> THEN best_match
    ELSE best_match_candidate(target_norm, candidates, best_match, best_score,
                              normalize_for_matching(Head(candidates)))

\* TextNormalizer.find_best_match
find_best_match(target, candidates) ==
    IF target = <<>> \/ candidates = <<>> THEN NoMatch
    ELSE best_match_loop(normalize_for_matching(target), candidates, NoMatch, <<0, 1>>)

\* LinkResolver.find_by_name: the first entry with exactly that text, else
\* the first whose normalized text equals the normalized name, else the
\* first entry whose text is the best fuzzy match
FoundByName(e) ==
    [name |-> e.name, file |-> e.file,
     anchor |-> IF e.anchor # "" THEN e.anchor ELSE e.placeholder,
     found |-> TRUE]

FirstOf(index, hits, otherwise) ==
    IF hits # {} THEN FoundByName(index[Min(hits)]) ELSE otherwise

TextIs(index, text) == {i \in 1..Len(index) : index[i].name = text}

NormalizedIs(index, n) ==
    {i \in 1..Len(index) : normalize_for_matching(index[i].name) = n}

BestMatches(index, best_match) ==
    {i \in 1..Len(index) : best_match.found /\ index[i].name = best_match.text}

find_by_name(index, object_name) ==
    FirstOf(index, TextIs(index, object_name),
       FirstOf(index, NormalizedIs(index, normalize_for_matching(object_name)),
          FirstOf(index,
                  BestMatches(index,
                              find_best_match(object_name,
                                              [i \in 1..Len(index) |-> index[i].name])),
                  NoLink)))

\* the mutation under which the name is tried before the id
find_link_name_first(index, object_id, object_name) ==
    LET r == IF object_name # <<>> THEN find_by_name(index, object_name) ELSE NoLink
    IN  IF r.found THEN r
        ELSE IF object_id # "" THEN find_by_id(index, object_id)
        ELSE NoLink

\* LinkResolver.find_link: the id first, the name only if the id finds nothing
find_link(index, object_id, object_name) ==
    LET r == IF object_id # "" THEN find_by_id(index, object_id) ELSE NoLink
    IN  IF r.found THEN r
        ELSE IF object_name # <<>> THEN find_by_name(index, object_name)
        ELSE NoLink

find_function_link(files, function_id) ==
    IF "Funcao.html" \notin files THEN NoLink ELSE find_by_id(FunctionIndex, function_id)

find_fact_link(files, fact_id) ==
    IF "Fato.html" \notin files THEN NoLink ELSE find_link(FactIndex, fact_id, <<>>)

find_logical_table_link(files, table_name, table_id) ==
    IF "TabelaLogica.html" \notin files THEN NoLink
    ELSE find_link(TableIndex, table_id, table_name)

(***************************************************************************)
(* Objects.  Every Metrica, Function and Fact the program constructs is an *)
(* entry of the heap; a reference is its position.  A file path           *)
(* "file#anchor" is the pair of its two parts.                             *)
(***************************************************************************)
Path(file, anchor) == [file |-> file, anchor |-> anchor]

Metrica(name, id, file_path, dataset_id, tipo, formula, function, fact, metricas) ==
    [kind |-> "Metrica", name |-> name, id |-> id, file_path |-> file_path,
     dataset_id |-> dataset_id, tipo |-> tipo, formula |-> formula,
     function |-> function, fact |-> fact, metricas |-> metricas]

FileStem(file) ==
    CASE file = "f1.html" -> "f1"
      [] file = "f2.html" -> "f2"
      [] OTHER -> file

\* _extract_fact_logic_tables_for_metric
LogicTable(lt, tl) ==
    [name |-> lt.name, id |-> lt.id,
     file_path |-> IF tl.found THEN Path(tl.file, tl.anchor) ELSE Path("", ""),
     column_name |-> lt.column_name]

RECURSIVE resolve_tables(_, _)
resolve_tables(files, lts) ==
    IF lts = <<>> THEN <<>>
    ELSE <<LogicTable(Head(lts),
                      find_logical_table_link(files, Head(lts).name, Head(lts).id))>>
         \o resolve_tables(files, Tail(lts))

fact_logic_tables(files, fact_link) ==
    IF fact_link.file \in files
    THEN resolve_tables(files, FactTables(fact_link.anchor))
    ELSE <<>>

\* extract_simple_metric_components: the Function and Fact objects of a
\* simple metric, as the objects to allocate (none when unresolved).
Function(fl) ==
    IF fl.found
    THEN <<[kind |-> "Function", name |-> fl.name, file_path |-> Path(fl.file, fl.anchor)]>>
    ELSE <<>>

Fact(files, kl, fact_id) ==
    IF kl.found
    THEN <<[kind |-> "Fact", name |-> kl.name,
            id |-> IF kl.anchor # "" THEN kl.anchor ELSE fact_id,
            file_path |-> Path(kl.file, kl.anchor),
            logic_tables |-> fact_logic_tables(files, kl)]>>
    ELSE <<>>

extract_simple_metric_components(files, definition) ==
    [function |->
        Function(IF definition.function_id # ""
                 THEN find_function_link(files, definition.function_id) ELSE NoLink),
     fact |->
        Fact(files,
             IF definition.fact_id # ""
             THEN find_fact_link(files, definition.fact_id) ELSE NoLink,
             definition.fact_id)]

(***************************************************************************)
(* MetricExtractor.extract and its helpers (extractor_helpers.py).         *)
(***************************************************************************)
check_circular_reference(metrica_id, visited_ids) ==
    metrica_id # "" /\ metrica_id \in visited_ids

\* the mutation under which the id of the metric being extracted is not
\* recorded
add_visited_forgets(visited_ids, metrica_id) ==
    visited_ids

\* visited_ids.add(metrica_id), done only for a non-empty id
add_visited(visited_ids, metrica_id) ==
    IF metrica_id # "" THEN visited_ids \cup {metrica_id} ELSE visited_ids

\* cache_key = f"{metrica_id}:{metrica_name}" or f"{dataset_id}:{metrica_name}"
cache_key(metrica_id, dataset_id, metrica_name) ==
    IF metrica_id # "" THEN <<metrica_id, metrica_name>> ELSE <<dataset_id, metrica_name>>

\* the mutation under which a memo hit hands out the cached instance itself,
\* re-scoped to the requested dataset
check_metric_cache_shares(h, cached_ref, dataset_id) ==
    [heap |-> [h EXCEPT ![cached_ref].dataset_id = dataset_id], ref |-> cached_ref]

\* the mutation under which the copy handed out on a memo hit loses the
\* children of the cached metric
check_metric_cache_drops_children(h, cached_ref, dataset_id) ==
    [heap |-> Append(h, [h[cached_ref] EXCEPT !.dataset_id = dataset_id,
                                               !.metricas = <<>>]),
     ref |-> Len(h) + 1]

\* check_metric_cache: a new Metrica is constructed from the fields of the
\* cached one and the requested dataset id; function and fact are the same
\* references, metricas is a new list of the same children.
check_metric_cache(h, cached_ref, dataset_id) ==
    LET cached_metric == h[cached_ref]
    IN  [heap |-> Append(h, Metrica(cached_metric.name, cached_metric.id,
                                    cached_metric.file_path, dataset_id,
                                    cached_metric.tipo, cached_metric.formula,
                                    cached_metric.function, cached_metric.fact,
                                    cached_metric.metricas)),
         ref |-> Len(h) + 1]

Call(name, file, anchor, ds, mid, visited) ==
    [kind |-> "call", name |-> name, file |-> file, anchor |-> anchor,
     ds |-> ds, mid |-> mid, visited |-> visited]

Frame(ref, key, ds, visited, todo) ==
    [ref |-> ref, key |-> key, ds |-> ds, visited |-> visited, todo |-> todo,
     comps |-> <<>>, added |-> {}]

MemoPut(m, key, ref) ==
    [k \in DOMAIN m \cup {key} |-> IF k = key THEN ref ELSE m[k]]

Depth == Len(stack) + (IF call.kind = "call" THEN 1 ELSE 0)

NoCur == [x |-> "", ds |-> ""]

\* the value a call returns reaches its caller: the loop of
\* extract_composite_metric_components appends a child that is not None and
\* records its id (lines 247-249); the top-level caller is handed the value.
DeliverStack(stk, value) ==
    IF stk = <<>> THEN stk
    ELSE LET f == stk[Len(stk)]
         IN  [stk EXCEPT ![Len(stk)] =
                IF value # None
                THEN [f EXCEPT !.todo = Tail(f.todo),
                               !.comps = Append(f.comps, value),
                               !.added = f.added \cup {Head(f.todo)}]
                ELSE [f EXCEPT !.todo = Tail(f.todo)]]

DeliverResults(stk, value) ==
    IF stk = <<>>
    THEN Append(results, [x |-> cur.x, ds |-> cur.ds, ref |-> value])
    ELSE results

\* extract, lines 41-108 and, for every path but the composite one, to its
\* return
Enter ==
    /\ call.kind = "call"
    /\ LET c == call
           mid0 == IF c.mid # "" THEN c.mid ELSE c.anchor
           visited1 == add_visited(c.visited, mid0)
           key == cache_key(mid0, c.ds, c.name)
           new == Len(heap) + 1
           Return(value, h, m) ==
               [heap |-> h, memo |-> m, stack |-> DeliverStack(stack, value),
                results |-> DeliverResults(stack, value)]
           out ==
             IF check_circular_reference(mid0, c.visited)
             THEN Return(None, heap, memo)
             ELSE IF key \in DOMAIN memo
             THEN LET hit == check_metric_cache(heap, memo[key], c.ds)
                  IN  Return(hit.ref, hit.heap, memo)
             ELSE IF c.file \notin corpus.files
             THEN Return(None, heap, memo)
             ELSE LET metrica_id == IF c.anchor # "" THEN c.anchor ELSE FileStem(c.file)
                      definition == extract_metric_definition(corpus.docs[c.file], c.anchor)
                      tipo == IF definition.tipo = "" THEN "simples" ELSE definition.tipo
                      m == Metrica(c.name, metrica_id, Path(c.file, c.anchor), c.ds, tipo,
                                   definition.formula, None, None, <<>>)
                  IN  IF tipo = "composto"
                      THEN [heap |-> Append(heap, m), memo |-> memo,
                            stack |-> Append(stack, Frame(new, key, c.ds, visited1,
                                                          definition.child_metric_ids)),
                            results |-> results]
                      ELSE LET sc == extract_simple_metric_components(corpus.files, definition)
                               fref == IF sc.function = <<>> THEN None ELSE new + 1
                               kref == IF sc.fact = <<>> THEN None
                                       ELSE new + 1 + Len(sc.function)
                           IN  Return(new,
                                      Append(heap, [m EXCEPT !.function = fref,
                                                             !.fact = kref])
                                        \o sc.function \o sc.fact,
                                      MemoPut(memo, key, new))
       IN  /\ heap' = out.heap
           /\ memo' = out.memo
           /\ stack' = out.stack
           /\ results' = out.results
           /\ cur' = IF out.stack = <<>> THEN NoCur ELSE cur
    /\ call' = NoCall
    /\ UNCHANGED <<corpus, ncalls, assigned, NotMetric>>

\* whether the loop of extract_composite_metric_components skips this child
skip_child(child_metric_id, added_child_ids, visited_ids) ==
    child_metric_id \in added_child_ids \/ child_metric_id \in visited_ids

\* one iteration of the loop of extract_composite_metric_components, up to
\* the recursive call
LoopStep ==
    /\ call.kind = "none" /\ stack # <<>>
    /\ LET f == stack[Len(stack)]
       IN  /\ f.todo # <<>>
           /\ LET cid == Head(f.todo)
                  link == IF "Metrica.html" \in corpus.files
                          THEN find_metric_link(corpus.metricIndex, <<>>, cid)
                          ELSE NoLink
              IN  IF skip_child(cid, f.added, f.visited) \/ ~link.found
                  THEN /\ stack' = [stack EXCEPT ![Len(stack)].todo = Tail(f.todo)]
                       /\ UNCHANGED call
                  ELSE /\ call' = Call(link.name, link.file, link.anchor, f.ds, cid,
                                       f.visited)
                       /\ UNCHANGED stack
    /\ UNCHANGED <<corpus, memo, heap, cur, results, ncalls, assigned, NotMetric>>

\* the loop is over: metrica.metricas is set, the metric is cached and
\* returned (extract_composite_metric_components line 253, extract 128-135)
Finish ==
    /\ call.kind = "none" /\ stack # <<>>
    /\ LET f == stack[Len(stack)]
           rest == SubSeq(stack, 1, Len(stack) - 1)
       IN  /\ f.todo = <<>>
           /\ heap' = [heap EXCEPT ![f.ref].metricas = f.comps]
           /\ memo' = MemoPut(memo, f.key, f.ref)
           /\ stack' = DeliverStack(rest, f.ref)
           /\ results' = DeliverResults(rest, f.ref)
           /\ cur' = IF rest = <<>> THEN NoCur ELSE cur
    /\ UNCHANGED <<corpus, call, ncalls, assigned, NotMetric>>

(***************************************************************************)
(* The caller: ReportExtractor._extract_single_report, lines 237-254, for  *)
(* one metric of one dataset.                                              *)
(***************************************************************************)
Quiet == call.kind = "none" /\ stack = <<>>

TopCall(x, ds) ==
    /\ Quiet
    /\ ncalls < MaxCalls
    /\ ncalls = 0 => ds = "D1"
    /\ LET link == IF "Metrica.html" \in corpus.files
                   THEN find_metric_link(corpus.metricIndex, NameOf(x), x)
                   ELSE NoLink
       IN  /\ link.found
           /\ call' = Call(link.name, link.file, link.anchor, ds, link.anchor, {})
    /\ cur' = [x |-> x, ds |-> ds]
    /\ ncalls' = ncalls + 1
    /\ UNCHANGED <<corpus, memo, heap, stack, results, assigned, NotMetric>>

IndexFiles == {"Metrica.html", "Funcao.html", "Fato.html", "TabelaLogica.html"}

Corpora(n, lowers, f2s) ==
    {[MkCorpus(fs[1], fs[2], fs[3], lower, f2) EXCEPT !.files = @ \cup IndexFiles] :
        fs \in UNION {[1..la -> FormulaIds] \X [1..lb -> FormulaIds]
                        \X [1..(k - la - lb) -> FormulaIds] :
                      <<la, lb, k>> \in {t \in (0..n) \X (0..n) \X (0..n) : t[1] + t[2] <= t[3]}},
        lower \in lowers, f2 \in f2s}

(***************************************************************************)
(* Reports and datasets.  Documento.html lists the reports; a report       *)
(* document lists its datasets; a dataset is resolved against the cube,    *)
(* report and shortcut indexes and its document lists the metrics of its   *)
(* template.  The datasets of the model have no attributes and the reports *)
(* no owner.                                                               *)
(***************************************************************************)
ReportFiles == {"Documento.html", "CuboInteligente.html", "Relatorio.html",
                "Atalho.html", "r1.html", "r2.html", "cube.html", "cube2.html",
                "rep_ds.html", "sc.html", "rep2.html", "cube3.html"}

DsLink(file, anchor, text) == [file |-> file, anchor |-> anchor, text |-> text]

CuboIndex == <<DsLink("cube.html", "D1", <<"d", "1">>), DsLink("cube2.html", "", <<"d", "4">>),
               DsLink("cube3.html", "D8", <<"d", "8">>)>>
RelatorioIndex == <<DsLink("rep_ds.html", "D2", <<"d", "2">>),
                    DsLink("rep2.html", "D7", <<"d", "7">>)>>
AtalhoIndex == <<DsLink("sc.html", "D5", <<"d", "5">>)>>

DsInfo(name, id) == [name |-> name, id |-> id]

\* the dataset links a report document can list: with an id placeholder or
\* without, resolvable or not
DsInfos == {DsInfo(<<"d", "1">>, "D1"), DsInfo(<<"d", "2">>, ""), DsInfo(<<"d", "3">>, ""),
            DsInfo(<<"d", "4">>, ""), DsInfo(<<"d", "5">>, "D5"), DsInfo(<<"d", "6">>, "D6"),
            DsInfo(<<"d", "7">>, "D7"), DsInfo(<<"d", "8">>, "D8")}

\* uuid.uuid4(): the values it may return
Uuids == {"U1", "U2"}

MetricaInfo(name_on_dataset, id) == [name_on_dataset |-> name_on_dataset, id |-> id]

\* is_report_dataset and extract_template_objects(_report) of a dataset
\* document: the metrics of the template, "E" being a derived metric that
\* the Metric index does not list
is_report_dataset(file) == file \in {"rep_ds.html", "cube3.html"}

extract_template_objects(file) ==
    CASE file = "cube.html" -> <<MetricaInfo(<<"m", "A">>, "A"), MetricaInfo(<<"d", "E">>, "E")>>
      [] file = "cube2.html" -> <<MetricaInfo(<<"m", "A">>, "A")>>
      [] file = "rep_ds.html" -> <<MetricaInfo(<<"m", "B">>, "B"), MetricaInfo(<<"m", "A">>, "A")>>
      [] file = "rep2.html" -> <<MetricaInfo(<<"m", "B">>, "B")>>
      [] OTHER -> <<>>

\* Python's  dataset_id in href  on the atomic ids of the model: an id is
\* within itself and "D1" is within "D10"; no file name holds an id
Within(dataset_id, anchor) == dataset_id = anchor \/ (dataset_id = "D1" /\ anchor = "D10")

\* resolve_dataset_link: the first link of CuboInteligente.html, then of
\* Relatorio.html, then of Atalho.html, whose href holds the id or whose
\* text is the name
MatchDsLinks(index, dataset_id, dataset_name) ==
    {i \in 1..Len(index) :
        \/ dataset_id # "" /\ Within(dataset_id, index[i].anchor)
        \/ dataset_name # <<>> /\ index[i].text = dataset_name}

DsResolved(index, hits, dataset_id, source) ==
    [found |-> TRUE,
     file_path |-> Path(index[Min(hits)].file,
                        IF dataset_id # "" /\ Within(dataset_id, index[Min(hits)].anchor)
                           /\ index[Min(hits)].anchor = ""
                        THEN dataset_id ELSE index[Min(hits)].anchor),
     source |-> source]

NotResolved == [found |-> FALSE, file_path |-> Path("", ""), source |-> ""]

FirstResolved(index, hits, dataset_id, source, otherwise) ==
    IF hits # {} THEN DsResolved(index, hits, dataset_id, source) ELSE otherwise

\* the mutation under which Relatorio.html is searched before
\* CuboInteligente.html
resolve_dataset_links_report_first(cubo, relatorio, atalho, dataset_id, dataset_name) ==
    FirstResolved(relatorio, MatchDsLinks(relatorio, dataset_id, dataset_name), dataset_id,
                  "Documento",
       FirstResolved(cubo, MatchDsLinks(cubo, dataset_id, dataset_name), dataset_id,
                     "CuboInteligente",
          FirstResolved(atalho, MatchDsLinks(atalho, dataset_id, dataset_name), dataset_id,
                        "Shortcut", NotResolved)))

\* resolve_dataset_link over the links of the three index documents, an
\* index document that does not exist having no links
resolve_dataset_links(cubo, relatorio, atalho, dataset_id, dataset_name) ==
    FirstResolved(cubo, MatchDsLinks(cubo, dataset_id, dataset_name), dataset_id,
                  "CuboInteligente",
       FirstResolved(relatorio, MatchDsLinks(relatorio, dataset_id, dataset_name), dataset_id,
                     "Documento",
          FirstResolved(atalho, MatchDsLinks(atalho, dataset_id, dataset_name), dataset_id,
                        "Shortcut", NotResolved)))

resolve_dataset_link(files, dataset_id, dataset_name) ==
    resolve_dataset_links(IF "CuboInteligente.html" \in files THEN CuboIndex ELSE <<>>,
                          IF "Relatorio.html" \in files THEN RelatorioIndex ELSE <<>>,
                          IF "Atalho.html" \in files THEN AtalhoIndex ELSE <<>>,
                          dataset_id, dataset_name)

DataSet(name, id, file_path, relatorio_id, applicationObject) ==
    [name |-> name, id |-> id, file_path |-> file_path, relatorio_id |-> relatorio_id,
     applicationObject |-> applicationObject, metricas |-> <<>>]

\* DatasetExtractor._create_empty_dataset; uuid is what uuid4() returns
create_empty_dataset(dataset_name, dataset_id, relatorio_id, uuid) ==
    DataSet(dataset_name, IF dataset_id = "" THEN uuid ELSE dataset_id, Path("", ""),
            relatorio_id, "")

\* DatasetExtractor.extract: a DataSet alone, nothing, an exception, or the
\* DataSet with the metrics of its template; uuid is what uuid4() returns.
\* An applicationObject of None is written "None", the unresolved dataset
\* of _create_empty_dataset has the empty string.
dataset_extract(rc, ds_info, relatorio_id, uuid) ==
    LET dataset_result == resolve_dataset_link(rc.files, ds_info.id, ds_info.name)
        dataset_file == dataset_result.file_path
        id1 == IF ds_info.id = "" /\ dataset_file.anchor # ""
               THEN dataset_file.anchor ELSE ds_info.id
        dataset_id == IF id1 = "" THEN uuid ELSE id1
    IN  IF ~dataset_result.found
        THEN [kind |-> "dataset", metricas_info |-> <<>>,
              dataset |-> create_empty_dataset(ds_info.name, ds_info.id, relatorio_id, uuid)]
        ELSE IF dataset_result.source = "Shortcut"
        THEN [kind |-> "dataset", metricas_info |-> <<>>,
              dataset |-> DataSet(ds_info.name, dataset_id, dataset_file, relatorio_id,
                                  "Shortcut")]
        ELSE IF dataset_file.file \notin rc.files
        THEN [kind |-> "none", metricas_info |-> <<>>, dataset |-> None]
        ELSE IF dataset_file.file \in rc.unreadable
        THEN [kind |-> "ParsingError", metricas_info |-> <<>>, dataset |-> None]
        ELSE [kind |-> "tuple",
              metricas_info |-> extract_template_objects(dataset_file.file),
              dataset |-> DataSet(ds_info.name, dataset_id, dataset_file, relatorio_id,
                                  IF is_report_dataset(dataset_file.file) THEN "Report"
                                  ELSE IF dataset_result.source = "CuboInteligente"
                                  THEN "CuboInteligente" ELSE "None")]

\* whether DatasetExtractor.extract calls uuid4() for this dataset
needs_uuid(rc, ds_info) ==
    LET r == resolve_dataset_link(rc.files, ds_info.id, ds_info.name)
    IN  ds_info.id = "" /\ (~r.found \/ r.file_path.anchor = "")

ReportEntry(name, file, anchor) == [name |-> name, file |-> file, anchor |-> anchor]

\* extract_report_links: the entries of Documento.html
\* find_report_by_name: every entry with exactly that name, else every
\* entry with that name up to letter case, else up to normalization
find_report_by_name(documento, report_name) ==
    LET all == 1..Len(documento)
        exact == {i \in all : documento[i].name = report_name}
        lower == {i \in all : [k \in 1..Len(documento[i].name) |-> LowerChar(documento[i].name[k])]
                              = [k \in 1..Len(report_name) |-> LowerChar(report_name[k])]}
        norm == {i \in all : normalize_text(documento[i].name) = normalize_text(report_name)}
        hits == IF exact # {} THEN exact ELSE IF lower # {} THEN lower ELSE norm
    IN  [i \in 1..Cardinality(hits) |->
            documento[CHOOSE j \in hits : Cardinality({k \in hits : k < j}) = i - 1]]

Relatorio(name, id, file_path) ==
    [name |-> name, id |-> id, file_path |-> file_path, datasets |-> <<>>]

R1 == ReportEntry(<<"r", "x">>, "r1.html", "R1")
R2(name) == ReportEntry(name, "r2.html", "R2")

\* the ways a snapshot can be damaged: a file that is not there, or one
\* that is there and cannot be opened
Faults == {"none", "no_documento", "no_report_file", "bad_report_file",
           "no_dataset_file", "bad_dataset_file", "no_metric_index"}

MissingOf(fault) ==
    CASE fault = "no_documento" -> {"Documento.html"}
      [] fault = "no_report_file" -> {"r1.html"}
      [] fault = "no_dataset_file" -> {"cube.html"}
      [] OTHER -> {}

UnreadableOf(fault) ==
    CASE fault = "bad_report_file" -> {"r1.html"}
      [] fault = "bad_dataset_file" -> {"cube.html"}
      [] OTHER -> {}

MkReports(documento, ds1, fault) ==
    [documento |-> documento,
     files |-> ReportFiles \ MissingOf(fault),
     unreadable |-> UnreadableOf(fault),
     datasets |-> [a \in {"R1", "R2"} |-> IF a = "R1" THEN ds1 ELSE <<DsInfo(<<"d", "1">>, "D1")>>],
     fault |-> fault]

DsLists(n) == UNION {[1..k -> DsInfos] : k \in 0..n}

NoJob == [phase |-> "none", task |-> 0, name |-> <<>>, todoReports |-> <<>>,
          rel |-> Relatorio(<<>>, "", Path("", "")), todoDs |-> <<>>,
          curDs |-> DataSet(<<>>, "", Path("", ""), "", ""), todoMetrics |-> <<>>,
          out |-> <<>>]

NoBatch == [mode |-> "", state |-> "idle", tasks |-> <<>>, done |-> {},
            collected |-> {}, relatorios |-> <<>>]

Outcome(raised, relatorios, failed) ==
    [task |-> job.task, name |-> job.name, raised |-> raised,
     relatorios |-> relatorios, failed |-> failed]

\* an exception leaves extract_report: the call is over
Raise(error, failed) ==
    /\ outcomes' = Append(outcomes, Outcome(error, <<>>, failed))
    /\ job' = NoJob

\* extract_report, lines 71-81: find_report_by_name parses Documento.html;
\* a fresh ReportExtractor has an empty metric memo
ExtractReport(task, report_name, fresh) ==
    /\ job.phase = "none" /\ Quiet
    /\ memo' = IF fresh THEN <<>> ELSE memo
    /\ IF "Documento.html" \notin rcorpus.files
       THEN /\ outcomes' = Append(outcomes,
                                  [task |-> task, name |-> report_name,
                                   raised |-> "MissingFileError",
                                   relatorios |-> <<>>, failed |-> ""])
            /\ UNCHANGED job
       ELSE /\ job' = [NoJob EXCEPT !.phase = "reports", !.task = task,
                                    !.name = report_name,
                                    !.todoReports =
                                        find_report_by_name(rcorpus.documento, report_name)]
            /\ UNCHANGED outcomes
    /\ UNCHANGED <<corpus, heap, stack, call, cur, results, ncalls, assigned,
                   parseVars, pureVars, cacheVars, rcorpus>>

\* _extract_single_report, lines 156-207
BeginReport ==
    /\ job.phase = "reports" /\ job.todoReports # <<>>
    /\ LET report_info == Head(job.todoReports)
           report_id == report_info.anchor
       IN  IF report_id = "" \/ report_info.file \notin rcorpus.files
           THEN /\ job' = [job EXCEPT !.todoReports = Tail(@)]
                /\ UNCHANGED outcomes
           ELSE IF report_info.file \in rcorpus.unreadable
           THEN Raise("ParsingError", report_id)
           ELSE /\ job' = [job EXCEPT
                              !.phase = "datasets",
                              !.rel = Relatorio(report_info.name, report_id,
                                                Path(report_info.file, report_id)),
                              !.todoDs = rcorpus.datasets[report_id]]
                /\ UNCHANGED outcomes
    /\ UNCHANGED <<metricVars, parseVars, pureVars, cacheVars, rcorpus, batch>>

\* _extract_single_report, lines 212-217 and 280-282, with
\* DatasetExtractor.extract
BeginDataset ==
    /\ job.phase = "datasets" /\ job.todoDs # <<>>
    /\ \E uuid \in Uuids :
          LET r == dataset_extract(rcorpus, Head(job.todoDs), job.rel.id, uuid)
          IN  CASE r.kind = "dataset" ->
                      /\ job' = [job EXCEPT !.rel.datasets = Append(@, r.dataset),
                                            !.todoDs = Tail(@)]
                      /\ UNCHANGED outcomes
                [] r.kind = "none" ->
                      /\ job' = [job EXCEPT !.todoDs = Tail(@)]
                      /\ UNCHANGED outcomes
                [] r.kind = "ParsingError" ->
                      Raise("ParsingError", job.rel.id)
                [] OTHER ->
                      /\ job' = [job EXCEPT !.phase = "metrics", !.curDs = r.dataset,
                                            !.todoMetrics = r.metricas_info]
                      /\ UNCHANGED outcomes
    /\ UNCHANGED <<metricVars, parseVars, pureVars, cacheVars, rcorpus, batch>>

\* _extract_single_report, lines 237-252 and 255-276: the metric is looked
\* up and extracted, or built as an embedded metric
MetricCall ==
    /\ job.phase = "metrics" /\ job.todoMetrics # <<>> /\ Quiet
    /\ LET metrica_info == Head(job.todoMetrics)
           metrica_link == IF "Metrica.html" \in corpus.files
                           THEN find_metric_link(corpus.metricIndex,
                                                 metrica_info.name_on_dataset,
                                                 metrica_info.id)
                           ELSE NoLink
       IN  IF metrica_link.found
           THEN /\ call' = Call(metrica_link.name, metrica_link.file, metrica_link.anchor,
                                job.curDs.id, metrica_link.anchor, {})
                /\ cur' = [x |-> metrica_info.id, ds |-> job.curDs.id]
                /\ job' = [job EXCEPT !.phase = "waiting"]
                /\ UNCHANGED heap
           ELSE /\ heap' = Append(heap, Metrica(metrica_info.name_on_dataset,
                                                metrica_info.id, Path("", ""),
                                                job.curDs.id, "embedded", <<>>,
                                                None, None, <<>>))
                /\ job' = [job EXCEPT !.curDs.metricas = Append(@, Len(heap) + 1),
                                      !.todoMetrics = Tail(@)]
                /\ UNCHANGED <<call, cur>>
    /\ UNCHANGED <<corpus, memo, stack, results, ncalls, assigned, parseVars, pureVars, cacheVars,
                   rcorpus, outcomes, batch>>

\* lines 253-254: the extracted metric, unless it is None, joins the dataset
MetricReturned ==
    /\ job.phase = "waiting" /\ Quiet
    /\ LET metrica == results[Len(results)].ref
       IN  job' = [job EXCEPT !.phase = "metrics",
                              !.curDs.metricas = IF metrica # None THEN Append(@, metrica)
                                                 ELSE @,
                              !.todoMetrics = Tail(@)]
    /\ UNCHANGED <<metricVars, parseVars, pureVars, cacheVars, rcorpus, outcomes, batch>>

\* line 278: relatorio.datasets.append(dataset)
EndDataset ==
    /\ job.phase = "metrics" /\ job.todoMetrics = <<>>
    /\ job' = [job EXCEPT !.phase = "datasets",
                          !.rel.datasets = Append(@, job.curDs),
                          !.todoDs = Tail(@)]
    /\ UNCHANGED <<metricVars, parseVars, pureVars, cacheVars, rcorpus, outcomes, batch>>

\* line 284 and extract_report lines 84-85
EndReport ==
    /\ job.phase = "datasets" /\ job.todoDs = <<>>
    /\ job' = [job EXCEPT !.phase = "reports", !.out = Append(@, job.rel),
                          !.todoReports = Tail(@)]
    /\ UNCHANGED <<metricVars, parseVars, pureVars, cacheVars, rcorpus, outcomes, batch>>

\* extract_report line 87 (and line 77 when no report has the name)
EndExtract ==
    /\ job.phase = "reports" /\ job.todoReports = <<>>
    /\ outcomes' = Append(outcomes, Outcome("", job.out, ""))
    /\ job' = NoJob
    /\ UNCHANGED <<metricVars, parseVars, pureVars, cacheVars, rcorpus, batch>>

ReportStep ==
    \/ BeginReport
    \/ BeginDataset
    \/ MetricCall
    \/ MetricReturned
    \/ EndDataset
    \/ EndReport
    \/ EndExtract

(***************************************************************************)
(* MemoryCache (cache/memory_cache.py).  A namespace is the sequence of    *)
(* its items in the order of its OrderedDict, the oldest first.            *)
(***************************************************************************)
\* the namespaces __init__ creates, the namespaces the calls name, the keys
\* and the values of the model
StandardNamespaces == {"default", "files"}
Namespaces == {"default", "reports"}
Keys == {"k1", "k2", "k3"}
Values == {"v1", "v2"}

NoReturn == [op |-> "none", key |-> "", namespace |-> "", value |-> "None"]

\* __init__, lines 19-29
CacheNew ==
    /\ caches = [n \in StandardNamespaces |-> <<>>]
    /\ touched = [n \in StandardNamespaces |-> <<>>]
    /\ returned = NoReturn

\* _get_cache: the namespace is created when it does not exist
get_cache(cs, namespace) ==
    [n \in DOMAIN cs \cup {namespace} |-> IF n \in DOMAIN cs THEN cs[n] ELSE <<>>]

KeysOf(cache) == {cache[i].key : i \in 1..Len(cache)}

Without(cache, key) == SelectSeq(cache, LAMBDA e : e.key # key)

\* the mutation under which move_to_end leaves the order as it is
move_to_end_noop(cache, key) == cache

\* OrderedDict.move_to_end(key)
move_to_end(cache, key) ==
    Without(cache, key) \o SelectSeq(cache, LAMBDA e : e.key = key)

\* cache[key] = value: an existing key keeps its place, a new one is last
setitem(cache, key, value) ==
    IF key \in KeysOf(cache)
    THEN [i \in 1..Len(cache) |-> IF cache[i].key = key
                                  THEN [key |-> key, value |-> value] ELSE cache[i]]
    ELSE Append(cache, [key |-> key, value |-> value])

\* the mutation under which no item is evicted
enforce_size_limit_skipped(cache, limit) == cache

\* _enforce_size_limit: popitem(last=False) while the namespace is larger
\* than max_size (max_size is not negative: Config.validate)
RECURSIVE enforce_size_limit(_, _)
enforce_size_limit(cache, limit) ==
    IF Len(cache) > limit THEN enforce_size_limit(Tail(cache), limit) ELSE cache

\* the keys of a namespace in the order of their last set or successful
\* get, after key was set or got
Touch(order, key) == SelectSeq(order, LAMBDA k : k # key) \o <<key>>

\* get, lines 68-74
get(key, namespace) ==
    LET cs == get_cache(caches, namespace)
        hit == key \in KeysOf(cs[namespace])
    IN  /\ caches' = IF hit THEN [cs EXCEPT ![namespace] = move_to_end(@, key)] ELSE cs
        /\ touched' = IF hit
                      THEN [get_cache(touched, namespace) EXCEPT ![namespace] = Touch(@, key)]
                      ELSE get_cache(touched, namespace)
        /\ returned' = [op |-> "get", key |-> key, namespace |-> namespace,
                        value |-> IF hit
                                  THEN (CHOOSE e \in {cs[namespace][i] : i \in 1..Len(cs[namespace])} :
                                            e.key = key).value
                                  ELSE "None"]
        /\ UNCHANGED <<max_size, metricVars, parseVars, reportVars, pureVars>>

\* set, lines 88-91
set(key, value, namespace) ==
    LET cs == get_cache(caches, namespace)
        kept == enforce_size_limit(move_to_end(setitem(cs[namespace], key, value), key),
                                   max_size)
    IN  /\ caches' = [cs EXCEPT ![namespace] = kept]
        /\ touched' = [get_cache(touched, namespace) EXCEPT ![namespace] =
                          SelectSeq(Touch(@, key), LAMBDA k : k \in KeysOf(kept))]
        /\ returned' = [op |-> "set", key |-> key, namespace |-> namespace, value |-> "None"]
        /\ UNCHANGED <<max_size, metricVars, parseVars, reportVars, pureVars>>

\* has, lines 106-107
has(key, namespace) ==
    /\ caches' = get_cache(caches, namespace)
    /\ touched' = get_cache(touched, namespace)
    /\ returned' = [op |-> "has", key |-> key, namespace |-> namespace,
                    value |-> IF key \in KeysOf(get_cache(caches, namespace)[namespace])
                              THEN "True" ELSE "False"]
    /\ UNCHANGED <<max_size, metricVars, parseVars, reportVars, pureVars>>

\* delete, lines 121-125
delete(key, namespace) ==
    /\ caches' = [get_cache(caches, namespace) EXCEPT ![namespace] = Without(@, key)]
    /\ touched' = [get_cache(touched, namespace) EXCEPT ![namespace] =
                      SelectSeq(@, LAMBDA k : k # key)]
    /\ returned' = [op |-> "delete", key |-> key, namespace |-> namespace,
                    value |-> IF key \in KeysOf(get_cache(caches, namespace)[namespace])
                              THEN "True" ELSE "False"]
    /\ UNCHANGED <<max_size, metricVars, parseVars, reportVars, pureVars>>

\* clear, lines 137-141: every namespace, or the one named when it exists
clear(namespace) ==
    /\ caches' = [n \in DOMAIN caches |->
                     IF namespace \in {"None", n} THEN <<>> ELSE caches[n]]
    /\ touched' = [n \in DOMAIN touched |->
                      IF namespace \in {"None", n} THEN <<>> ELSE touched[n]]
    /\ returned' = [op |-> "clear", key |-> "", namespace |-> namespace, value |-> "None"]
    /\ UNCHANGED <<max_size, metricVars, parseVars, reportVars, pureVars>>

(***************************************************************************)
(* parse_html_file (parsers/base_parser.py), one statement at a time, run  *)
(* by the worker threads of the pool.                                      *)
(***************************************************************************)
Threads == 1..NThreads

\* the files of the parse model: two that parse, one that exists but cannot
\* be opened, one that does not exist
ParsePaths == {"p1", "p2", "pu", "px"}
path_exists(file_path) == file_path # "px"
path_readable(file_path) == file_path # "pu"

NoPCall == [path |-> "", parsed |-> None, loaded |-> 0, quiet |-> FALSE]

ParseIdle ==
    /\ GLOBAL_HTML_CACHE = <<>>
    /\ CACHE_STATS = [hits |-> 0, misses |-> 0]
    /\ HTML_CACHE_LOCK = 0
    /\ HTML_STATS_LOCK = 0
    /\ ppc = [t \in Threads |-> "idle"]
    /\ pcall = [t \in Threads |-> NoPCall]
    /\ preturns = <<>>
    /\ ntrees = 0

\* the mutation under which acquire never blocks
lock_free_always(lock) == TRUE

\* threading.Lock: acquire blocks until the lock is free
lock_free(lock) == lock = 0

\* the mutation under which leaving a with block keeps the lock
release_forgotten(lock, t) == lock

\* leaving a with block, by its end, a return or an exception: the lock is
\* released
release(lock, t) == IF lock = t THEN 0 ELSE lock

AllReturned == \A t \in Threads : ppc[t] = "idle"
ParsedPaths == {preturns[i].path : i \in {j \in 1..Len(preturns) : preturns[j].tree # None}}

PReturn(t, tree, raised) ==
    /\ preturns' = Append(preturns, [thread |-> t, path |-> pcall[t].path,
                                     tree |-> tree, raised |-> raised,
                                     quiet |-> pcall[t].quiet])
    /\ ppc' = [ppc EXCEPT ![t] = "idle"]
    /\ pcall' = [pcall EXCEPT ![t] = NoPCall]

\* lines 39-42: the call, and MissingFileError when the file does not exist
ParseCall(t, file_path) ==
    /\ ppc[t] = "idle"
    /\ Len(preturns) + Cardinality({u \in Threads : ppc[u] # "idle"}) < MaxParseCalls
    /\ IF ~path_exists(file_path)
       THEN /\ preturns' = Append(preturns, [thread |-> t, path |-> file_path,
                                             tree |-> None,
                                             raised |-> "MissingFileError",
                                             quiet |-> FALSE])
            /\ UNCHANGED <<ppc, pcall>>
       ELSE /\ ppc' = [ppc EXCEPT ![t] = "with_cache_check"]
            /\ pcall' = [pcall EXCEPT ![t] =
                            [path |-> file_path, parsed |-> None, loaded |-> 0,
                             quiet |-> AllReturned /\ file_path \in ParsedPaths]]
            /\ UNCHANGED preturns
    /\ UNCHANGED <<GLOBAL_HTML_CACHE, CACHE_STATS, HTML_CACHE_LOCK, HTML_STATS_LOCK,
                   ntrees, metricVars, reportVars, pureVars, cacheVars>>

\* line 45 and line 79: with _HTML_CACHE_LOCK
AcquireCacheLock(t) ==
    /\ ppc[t] \in {"with_cache_check", "with_cache_insert"}
    /\ lock_free(HTML_CACHE_LOCK)
    /\ HTML_CACHE_LOCK' = t
    /\ ppc' = [ppc EXCEPT ![t] = IF ppc[t] = "with_cache_check" THEN "check" ELSE "insert"]
    /\ UNCHANGED <<GLOBAL_HTML_CACHE, CACHE_STATS, HTML_STATS_LOCK, pcall, preturns,
                   ntrees, metricVars, reportVars, pureVars, cacheVars>>

\* line 46: the existence check; on a miss the with block is left and the
\* lock released
CheckCache(t) ==
    /\ ppc[t] = "check"
    /\ IF pcall[t].path \in DOMAIN GLOBAL_HTML_CACHE
       THEN /\ ppc' = [ppc EXCEPT ![t] = "with_stats_hit"]
            /\ UNCHANGED HTML_CACHE_LOCK
       ELSE /\ ppc' = [ppc EXCEPT ![t] = "with_stats_miss"]
            /\ HTML_CACHE_LOCK' = release(HTML_CACHE_LOCK, t)
    /\ UNCHANGED <<GLOBAL_HTML_CACHE, CACHE_STATS, HTML_STATS_LOCK, pcall, preturns,
                   ntrees, metricVars, reportVars, pureVars, cacheVars>>

\* lines 47 and 51: with _HTML_STATS_LOCK
CountStats(t) ==
    /\ ppc[t] \in {"with_stats_hit", "with_stats_miss"}
    /\ lock_free(HTML_STATS_LOCK)
    /\ HTML_STATS_LOCK' = t
    /\ ppc' = [ppc EXCEPT ![t] = IF ppc[t] = "with_stats_hit" THEN "inc_hits" ELSE "inc_misses"]
    /\ UNCHANGED <<GLOBAL_HTML_CACHE, CACHE_STATS, HTML_CACHE_LOCK, pcall, preturns,
                   ntrees, metricVars, reportVars, pureVars, cacheVars>>

\* lines 48 and 52: _CACHE_STATS[k] += 1 reads the counter ...
LoadStats(t) ==
    /\ ppc[t] \in {"inc_hits", "inc_misses"}
    /\ pcall' = [pcall EXCEPT ![t].loaded = IF ppc[t] = "inc_hits" THEN CACHE_STATS.hits
                                            ELSE CACHE_STATS.misses]
    /\ ppc' = [ppc EXCEPT ![t] = IF ppc[t] = "inc_hits" THEN "store_hits" ELSE "store_misses"]
    /\ UNCHANGED <<GLOBAL_HTML_CACHE, CACHE_STATS, HTML_CACHE_LOCK, HTML_STATS_LOCK, preturns,
                   ntrees, metricVars, reportVars, pureVars, cacheVars>>

\* ... and stores the value read plus one, and the with block is left
IncStats(t) ==
    /\ ppc[t] \in {"store_hits", "store_misses"}
    /\ CACHE_STATS' = IF ppc[t] = "store_hits"
                      THEN [CACHE_STATS EXCEPT !.hits = pcall[t].loaded + 1]
                      ELSE [CACHE_STATS EXCEPT !.misses = pcall[t].loaded + 1]
    /\ HTML_STATS_LOCK' = release(HTML_STATS_LOCK, t)
    /\ ppc' = [ppc EXCEPT ![t] = IF ppc[t] = "store_hits" THEN "return_cached" ELSE "parse"]
    /\ UNCHANGED <<GLOBAL_HTML_CACHE, HTML_CACHE_LOCK, pcall, preturns, ntrees, metricVars, reportVars, pureVars, cacheVars>>

\* line 49: return _GLOBAL_HTML_CACHE[file_path_str], leaving the with block
ReturnCached(t) ==
    /\ ppc[t] = "return_cached"
    /\ PReturn(t, GLOBAL_HTML_CACHE[pcall[t].path], "")
    /\ HTML_CACHE_LOCK' = release(HTML_CACHE_LOCK, t)
    /\ UNCHANGED <<GLOBAL_HTML_CACHE, CACHE_STATS, HTML_STATS_LOCK, ntrees, metricVars, reportVars, pureVars, cacheVars>>

\* lines 55-76: the file is read and parsed outside any lock; ParsingError
\* when even the fallback cannot open it
ParseFile(t) ==
    /\ ppc[t] = "parse"
    /\ IF path_readable(pcall[t].path)
       THEN /\ ntrees' = ntrees + 1
            /\ pcall' = [pcall EXCEPT ![t].parsed = ntrees + 1]
            /\ ppc' = [ppc EXCEPT ![t] = "with_cache_insert"]
            /\ UNCHANGED preturns
       ELSE /\ PReturn(t, None, "ParsingError")
            /\ UNCHANGED ntrees
    /\ UNCHANGED <<GLOBAL_HTML_CACHE, CACHE_STATS, HTML_CACHE_LOCK, HTML_STATS_LOCK,
                   metricVars, reportVars, pureVars, cacheVars>>

\* lines 80-82: the insert, the release and the return
InsertCache(t) ==
    /\ ppc[t] = "insert"
    /\ GLOBAL_HTML_CACHE' =
          [k \in DOMAIN GLOBAL_HTML_CACHE \cup {pcall[t].path} |->
              IF k = pcall[t].path THEN pcall[t].parsed ELSE GLOBAL_HTML_CACHE[k]]
    /\ HTML_CACHE_LOCK' = release(HTML_CACHE_LOCK, t)
    /\ PReturn(t, pcall[t].parsed, "")
    /\ UNCHANGED <<CACHE_STATS, HTML_STATS_LOCK, ntrees, metricVars, reportVars, pureVars, cacheVars>>

InitAll(C, RC, modes) ==
    /\ corpus \in C
    /\ memo = <<>>
    /\ heap = <<>>
    /\ stack = <<>>
    /\ call = NoCall
    /\ cur = NoCur
    /\ results = <<>>
    /\ ncalls = 0
    /\ assigned = {}
    /\ ParseIdle
    /\ rcorpus \in RC
    /\ job = NoJob
    /\ outcomes = <<>>
    /\ batch \in {[NoBatch EXCEPT !.mode = m] : m \in modes}
    /\ request = NoRequest
    /\ answers = <<>>
    /\ max_size = MaxCacheSize
    /\ CacheNew

InitWith(C) == InitAll(C, {MkReports(<<>>, <<>>, "none")}, {""})

\* one top-level extraction on an empty memo, over the full family of corpora
InitOne == InitWith(Corpora(MaxLinks, LowerSets, BOOLEAN))

Step == Enter \/ LoopStep \/ Finish

NextOne ==
    \/ \E x \in {"A", "B", "C"} : ncalls = 0 /\ TopCall(x, "D1")
    \/ Enter
    \/ LoopStep
    \/ Finish

SpecOne == InitOne /\ [][NextOne]_vars

\* one top-level extraction over corpora in which the fourth metric D has a
\* formula too: A has up to MaxSiblings children, B, C and D up to one
SiblingIds == {"B", "C", "D"}

Cells(n) == UNION {[1..k -> SiblingIds] : k \in 0..n}

MkSiblings(fa, fb, fc, fd) ==
    [MkCorpus(fa, fb, fc, {}, TRUE) EXCEPT !.files = @ \cup IndexFiles,
                                           !.docs["f1.html"][3] = Section("D", "D", fd),
                                           !.formula["D"] = fd]

InitSiblings ==
    InitWith({MkSiblings(fa, fb, fc, fd) :
                 fa \in Cells(MaxSiblings), fb \in Cells(1), fc \in Cells(1), fd \in Cells(1)})

SpecSiblings == InitSiblings /\ [][NextOne]_vars

\* the interpreter keeps executing a started extraction: weak fairness of
\* Step written out, a step being possible exactly while an extraction is
\* under way
FairSpecOne == SpecOne /\ ([]<>Quiet \/ []<><<Step>>_vars)

\* a run of MaxCalls top-level extractions by one extractor, sharing its memo
Init == InitWith(Corpora(MaxRunLinks, {{}}, {TRUE}))

Next ==
    \/ \E x \in {"A", "B", "C"}, ds \in DatasetIds : TopCall(x, ds)
    \/ Enter
    \/ LoopStep
    \/ Finish

Spec == Init /\ [][Next]_vars

\* a new extractor takes the place of the first one: its memo is empty and
\* it has made no call; the objects the first one returned stay with the
\* caller
FreshExtractor ==
    /\ Quiet
    /\ ncalls > 0
    /\ Len(results) = ncalls
    /\ memo' = <<>>
    /\ ncalls' = 0
    /\ UNCHANGED <<corpus, heap, stack, call, cur, results, assigned, NotMetric>>

NextMemo ==
    \/ \E x \in {"A", "B", "C"}, ds \in DatasetIds : TopCall(x, ds)
    \/ Enter
    \/ LoopStep
    \/ Finish
    \/ FreshExtractor

\* MaxCalls extractions by one extractor and MaxCalls more by a second one
SpecMemo == Init /\ [][NextMemo]_vars

\* the same report is extracted MaxExtractions times, by one ReportExtractor
\* (sequential mode) or by a fresh one each time (batch mode)
InitTwice ==
    InitAll(Corpora(MaxReportLinks, LowerSets, BOOLEAN),
            {MkReports(<<R1>>, ds, "none") : ds \in DsLists(MaxDatasets)},
            {"sequential", "batch"})

NextTwice ==
    \/ /\ Len(outcomes) < MaxExtractions
       /\ ExtractReport(0, R1.name, batch.mode = "batch")
       /\ UNCHANGED batch
    \/ ReportStep
    \/ Enter
    \/ LoopStep
    \/ Finish

SpecTwice == InitTwice /\ [][NextTwice]_vars

\* one extraction of a report from a snapshot that may be damaged
WithoutMetricIndex(C) == {[c EXCEPT !.files = @ \ {"Metrica.html"}] : c \in C}

FaultsAgree == (rcorpus.fault = "no_metric_index") <=> ("Metrica.html" \notin corpus.files)

InitReport ==
    /\ InitAll(Corpora(MaxReportLinks, {{}}, BOOLEAN)
                  \cup WithoutMetricIndex(Corpora(MaxReportLinks, {{}}, {TRUE})),
               {MkReports(<<R1>>, ds, f) : ds \in DsLists(MaxDatasets), f \in Faults},
               {"sequential"})
    /\ FaultsAgree

NextReport ==
    \/ /\ outcomes = <<>>
       /\ ExtractReport(0, R1.name, FALSE)
       /\ UNCHANGED batch
    \/ ReportStep
    \/ Enter
    \/ LoopStep
    \/ Finish

SpecReport == InitReport /\ [][NextReport]_vars

\* a snapshot in which the documents F of the metrics hold no definition
\* header at all, so that _find_definition_section finds nothing in them
WithoutDefinition(C, F) ==
    {[c EXCEPT !.docs = [f \in DOMAIN c.docs |->
                            IF f \in F
                            THEN [i \in 1..Len(c.docs[f]) |->
                                    [c.docs[f][i] EXCEPT !.hasDef = FALSE]]
                            ELSE c.docs[f]]] : c \in C}

\* one extraction of a report whose metrics, or whose child metrics, are in
\* a document without definition header
InitNoDef ==
    InitAll(WithoutDefinition(Corpora(MaxReportLinks, {{}}, {TRUE}), {"f1.html"})
               \cup WithoutDefinition(Corpora(MaxReportLinks, {{}}, {TRUE}), {"f2.html"}),
            {MkReports(<<R1>>, ds, "none") : ds \in DsLists(MaxDatasets)},
            {"sequential"})

SpecNoDef == InitNoDef /\ [][NextReport]_vars

(***************************************************************************)
(* ParallelReportExtractor.extract_all_reports.  Every task of the pool    *)
(* builds its own ReportExtractor and the tasks share the parse cache      *)
(* only, so a task is run to its end before the next one is looked at; in  *)
(* parallel mode the tasks run and are collected in any order.             *)
(***************************************************************************)
OutcomeOf(t) == outcomes[CHOOSE i \in 1..Len(outcomes) : outcomes[i].task = t]
Finished(t) == \E i \in 1..Len(outcomes) : outcomes[i].task = t

\* the mutation under which the exception of a task leaves the batch call
collect_state_propagates(outcome) ==
    IF outcome.raised # "" THEN "raised" ELSE "running"

\* lines 95-101, 146-163 and 190-198: an exception of a task is caught and
\* logged, the loop goes on
collect_state(outcome) == "running"

\* _extract_single_report: the list of reports, None when it is empty or
\* when extract_report raised
single_report_result(outcome) ==
    IF outcome.raised # "" THEN <<>> ELSE outcome.relatorios

\* lines 66-77: the tasks are the entries of Documento.html
BatchStart ==
    /\ batch.state = "idle" /\ batch.mode # ""
    /\ IF "Documento.html" \notin rcorpus.files
       THEN batch' = [batch EXCEPT !.state = "raised"]
       ELSE batch' = [batch EXCEPT !.state = "running",
                                   !.tasks = rcorpus.documento,
                                   !.mode = IF Len(rcorpus.documento) < 2
                                            THEN "sequential" ELSE @]
    /\ UNCHANGED <<metricVars, parseVars, pureVars, cacheVars, rcorpus, job, outcomes>>

\* a task starts: extract_report(report_info['name']), by a new
\* ReportExtractor in parallel mode and by the shared one in sequential mode
RunTask(t) ==
    /\ batch.state = "running"
    /\ t \in (1..Len(batch.tasks)) \ batch.done
    /\ batch.mode = "sequential" =>
          t = Cardinality(batch.done) + 1 /\ batch.done = batch.collected
    /\ ExtractReport(t, batch.tasks[t].name, batch.mode = "parallel")
    /\ batch' = [batch EXCEPT !.done = @ \cup {t}]

\* the result of a finished task is taken: relatorios.extend(result)
Collect(t) ==
    /\ batch.state = "running"
    /\ t \in batch.done \ batch.collected
    /\ Finished(t)
    /\ batch' = [batch EXCEPT
                    !.state = collect_state(OutcomeOf(t)),
                    !.collected = @ \cup {t},
                    !.relatorios = @ \o single_report_result(OutcomeOf(t))]
    /\ UNCHANGED <<metricVars, parseVars, pureVars, cacheVars, rcorpus, job, outcomes>>

\* lines 103 and 175: return relatorios
BatchReturn ==
    /\ batch.state = "running"
    /\ batch.collected = 1..Len(batch.tasks)
    /\ batch' = [batch EXCEPT !.state = "returned"]
    /\ UNCHANGED <<metricVars, parseVars, pureVars, cacheVars, rcorpus, job, outcomes>>

InitBatch ==
    /\ InitAll(Corpora(MaxReportLinks, {{}}, {TRUE})
                  \cup WithoutMetricIndex(Corpora(0, {{}}, {TRUE})),
               {MkReports(d, ds, f) :
                   d \in {<<R1>>, <<R1, R2(<<"r", "x">>)>>, <<R1, R2(<<"r", "y">>)>>},
                   ds \in DsLists(MaxBatchDatasets), f \in Faults},
               {"parallel", "sequential"})
    /\ FaultsAgree

NextBatch ==
    \/ BatchStart
    \/ \E t \in 1..Len(batch.tasks) : RunTask(t)
    \/ \E t \in 1..Len(batch.tasks) : Collect(t)
    \/ BatchReturn
    \/ ReportStep
    \/ Enter
    \/ LoopStep
    \/ Finish

SpecBatch == InitBatch /\ [][NextBatch]_vars

\* the worker threads call parse_html_file concurrently
InitParse == InitWith({CHOOSE c \in Corpora(0, {{}}, {TRUE}) : TRUE})

NextParse ==
    \E t \in Threads :
        \/ \E file_path \in ParsePaths : ParseCall(t, file_path)
        \/ AcquireCacheLock(t)
        \/ CheckCache(t)
        \/ CountStats(t)
        \/ LoadStats(t)
        \/ IncStats(t)
        \/ ReturnCached(t)
        \/ ParseFile(t)
        \/ InsertCache(t)

SpecParse == InitParse /\ [][NextParse]_vars

\* the statements of a call under way in thread t
ThreadStep(t) ==
    \/ AcquireCacheLock(t)
    \/ CheckCache(t)
    \/ CountStats(t)
    \/ LoadStats(t)
    \/ IncStats(t)
    \/ ReturnCached(t)
    \/ ParseFile(t)
    \/ InsertCache(t)

\* thread t has a statement it can execute
Runnable(t) ==
    \/ ppc[t] \in {"with_cache_check", "with_cache_insert"} /\ lock_free(HTML_CACHE_LOCK)
    \/ ppc[t] \in {"with_stats_hit", "with_stats_miss"} /\ lock_free(HTML_STATS_LOCK)
    \/ ppc[t] \in {"check", "inc_hits", "inc_misses", "store_hits", "store_misses",
                    "return_cached", "parse", "insert"}

\* the operating system keeps scheduling every thread that can run and a
\* file read finishes: weak fairness of each thread's statements, written
\* out
FairSpecParse ==
    SpecParse /\ \A t \in Threads : ([]<>(~Runnable(t)) \/ []<><<ThreadStep(t)>>_vars)

\* a caller that holds a returned Metrica assigns its dataset_id (models.py:
\* Metrica is a mutable dataclass)
Assign(r, ds) ==
    /\ Quiet
    /\ Cardinality(assigned) < MaxAssigns
    /\ r \notin assigned
    /\ heap' = [heap EXCEPT ![r].dataset_id = ds]
    /\ assigned' = assigned \cup {r}
    /\ UNCHANGED <<corpus, memo, stack, call, cur, results, ncalls, NotMetric>>

NextAssign ==
    \/ \E x \in {"A", "B", "C"}, ds \in DatasetIds : TopCall(x, ds)
    \/ Enter
    \/ LoopStep
    \/ Finish
    \/ \E i \in 1..Len(results) : results[i].ref # None /\ Assign(results[i].ref, "D9")

SpecAssign == Init /\ [][NextAssign]_vars

(***************************************************************************)
(* Link resolution called on its own: LinkResolver.find_link and            *)
(* find_metric_link, for every small index and every id and name.          *)
(***************************************************************************)
Mes == <<"M", "e", "s">>
MesAccent == <<"M", "e^", "s">>
Mesa == <<"M", "e", "s", "a">>
MesLower == <<"m", "e", "s">>
MesWords == <<"M", "e", "s", " ", "B">>

Mesab == <<"M", "e", "s", "a", "b">>

ResolveNames == {Mes, MesAccent, Mesa, MesLower, MesWords, Mesab}

\* the href of the k-th link of the index names its own file
FileAt(k) ==
    CASE k = 1 -> "e1.html"
      [] k = 2 -> "e2.html"
      [] k = 3 -> "e3.html"
      [] OTHER -> "e4.html"

ResolveIndexes ==
    UNION {{[i \in 1..k |-> IndexEntry(f[i][1], FileAt(i), f[i][2], f[i][3])] :
                f \in [1..k -> ResolveNames \X {"", "a", "B"} \X {"", "A"}]} :
           k \in 1..MaxIndex}

ResolveRequests ==
    {[kind |-> "resolve", resolver |-> r, index |-> ix, id |-> id, name |-> n] :
        r \in {"find_link", "find_metric_link"}, ix \in ResolveIndexes,
        id \in {"", "A", "b"}, n \in {<<>>, Mes, Mesa}}

\* one call of a resolver; find_link raises when it is given neither an id
\* nor a name (lines 202-208)
Resolve ==
    /\ request.kind = "resolve"
    /\ answers' = Append(answers,
          [request |-> request,
           raised |-> IF request.resolver = "find_link" /\ request.id = ""
                         /\ request.name = <<>>
                      THEN "LinkResolutionError" ELSE "",
           link |-> IF request.resolver = "find_metric_link"
                    THEN find_metric_link(request.index, request.name, request.id)
                    ELSE IF request.id = "" /\ request.name = <<>> THEN NoLink
                    ELSE find_link(request.index, request.id, request.name)])
    /\ request' = NoRequest
    /\ UNCHANGED <<metricVars, parseVars, reportVars, cacheVars>>

InitPureSized(requests, sizes) ==
    \E r \in requests :
        /\ corpus = CHOOSE c \in Corpora(0, {{}}, {TRUE}) : TRUE
        /\ memo = <<>> /\ heap = <<>> /\ stack = <<>> /\ call = NoCall
        /\ cur = NoCur /\ results = <<>> /\ ncalls = 0 /\ assigned = {}
        /\ ParseIdle
        /\ rcorpus = MkReports(<<>>, <<>>, "none")
        /\ job = NoJob /\ outcomes = <<>> /\ batch = NoBatch
        /\ request = r
        /\ answers = <<>>
        /\ max_size \in sizes
        /\ CacheNew

InitPure(requests) == InitPureSized(requests, {MaxCacheSize})

SpecResolve == InitPure(ResolveRequests) /\ [][Resolve]_vars

(***************************************************************************)
(* Dataset resolution as a function of the three index documents.          *)
(***************************************************************************)
\* the links an index document may hold, in any order, up to MaxDsIndex of
\* them in the cube index and one fewer in the other two; the href of a
\* link names the document of its index and position
DsLinkKinds == {<<"D1", <<"d", "1">>>>, <<"D10", <<"d", "2">>>>, <<"D2", <<"d", "1">>>>,
                <<"", <<"d", "1">>>>, <<"D2", <<"d", "2">>>>}

DsFileAt(source, k) == <<source, k>>

DsIndexes(source, n) ==
    UNION {{[i \in 1..k |-> DsLink(DsFileAt(source, i), f[i][1], f[i][2])] :
                f \in [1..k -> DsLinkKinds]} : k \in 0..n}

DatasetRequests ==
    {[kind |-> "dataset", cubo |-> c, relatorio |-> r, atalho |-> a, id |-> id,
      name |-> <<"d", "1">>] :
        c \in DsIndexes("cubo", MaxDsIndex), r \in DsIndexes("relatorio", MaxDsIndex - 1),
        a \in DsIndexes("atalho", MaxDsIndex - 1),
        id \in {"", "D1", "D2"}}

\* one call of DatasetExtractor._resolve_dataset
ResolveDataset ==
    /\ request.kind = "dataset"
    /\ answers' = Append(answers,
          [request |-> request,
           result |-> resolve_dataset_links(request.cubo, request.relatorio, request.atalho,
                                            request.id, request.name)])
    /\ request' = NoRequest
    /\ UNCHANGED <<metricVars, parseVars, reportVars, cacheVars>>

SpecDataset == InitPure(DatasetRequests) /\ [][ResolveDataset]_vars

(***************************************************************************)
(* Locating an object section (parsers/base_parser.py).  A document is the *)
(* sequence, in document order, of its anchor tags and its comments; an    *)
(* anchor tag has its name and whether a tr encloses it, a comment has the *)
(* object named by its marker and whether one table, nested tables or no   *)
(* table encloses it.                                                      *)
(***************************************************************************)
Element(kind, name, container) == [kind |-> kind, name |-> name, container |-> container]

Elements ==
    {Element("a", n, c) : n \in {"A", "a", "B"}, c \in {"tr", ""}}
    \cup {Element("comment", n, c) : n \in {"X", "X Y"}, c \in {"table", "nested", ""}}

NoSection == [kind |-> "None", at |-> 0]

\* '[OBJECT: name]' in comment_text or '[OBJECT: name ' in comment_text, for
\* a comment whose text is the marker of the object
MarkerHas(object, object_name) ==
    object_name # "" /\ (object = object_name \/ (object = "X Y" /\ object_name = "X"))

\* find_object_section: the tr of the first anchor tag of that name, else
\* the outermost of the two nearest tables of the first matching comment
\* that has one, else None
find_object_section(doc, object_name, anchor) ==
    LET tags == {i \in 1..Len(doc) : doc[i].kind = "a" /\ doc[i].name = anchor}
        comments == {i \in 1..Len(doc) : /\ doc[i].kind = "comment"
                                          /\ MarkerHas(doc[i].name, object_name)
                                          /\ doc[i].container # ""}
    IN  IF anchor # "" /\ tags # {} /\ doc[Min(tags)].container = "tr"
        THEN [kind |-> "tr", at |-> Min(tags)]
        ELSE IF comments # {}
        THEN [kind |-> IF doc[Min(comments)].container = "nested" THEN "outer table"
                       ELSE "table",
              at |-> Min(comments)]
        ELSE NoSection

LocateRequests ==
    {[kind |-> "locate", doc |-> d, object_name |-> n, anchor |-> a] :
        d \in UNION {[1..k -> Elements] : k \in 0..MaxElements},
        n \in {"", "X"}, a \in {"", "A", "a"}}

\* one call of find_object_section
Locate ==
    /\ request.kind = "locate"
    /\ answers' = Append(answers,
          [request |-> request,
           section |-> find_object_section(request.doc, request.object_name,
                                           request.anchor)])
    /\ request' = NoRequest
    /\ UNCHANGED <<metricVars, parseVars, reportVars, cacheVars>>

SpecLocate == InitPure(LocateRequests) /\ [][Locate]_vars

\* a MemoryCache of any size up to MaxCacheSize and the calls made on it
InitCache == InitPureSized({NoRequest}, 0..MaxCacheSize)

NextCache ==
    \/ \E key \in Keys, namespace \in Namespaces : get(key, namespace)
    \/ \E key \in Keys, value \in Values, namespace \in Namespaces : set(key, value, namespace)
    \/ \E key \in Keys, namespace \in Namespaces : has(key, namespace)
    \/ \E key \in Keys, namespace \in Namespaces : delete(key, namespace)
    \/ \E namespace \in Namespaces \cup {"None"} : clear(namespace)

SpecCache == InitCache /\ [][NextCache]_vars

(***************************************************************************)
(* Reading a document: the encoding loop of parse_html_file, lines 55-76.  *)
(* A document is its bytes; a text is the sequence of its characters,      *)
(* each written as its code point.                                         *)
(***************************************************************************)
PREFERRED_ORDER_utf8_first == <<"utf-8", "iso-8859-1", "latin-1", "cp1252", "windows-1252">>

PREFERRED_ORDER == <<"iso-8859-1", "latin-1", "cp1252", "utf-8", "windows-1252">>

FALLBACK == "utf-8"

\* the bytes of the model: 'A', 0xC3, 0xAA and 0x81
DocBytes == {65, 195, 170, 129}

CodePoint(b) ==
    CASE b = 65 -> "U+0041"
      [] b = 195 -> "U+00C3"
      [] b = 170 -> "U+00AA"
      [] OTHER -> "U+0081"

\* what a codec does with a byte it cannot decode, by error handler
OnError(r, errors) ==
    CASE errors = "strict" -> [ok |-> FALSE, text |-> r.text]
      [] errors = "replace" -> [ok |-> r.ok, text |-> Append(r.text, "U+FFFD")]
      [] OTHER -> r

\* iso-8859-1 (latin-1) maps every byte to the code point of its value;
\* cp1252 (windows-1252) has no character for 0x81
RECURSIVE decode_single_byte(_, _, _, _)
decode_single_byte(encoding, bytes, errors, r) ==
    IF bytes = <<>> \/ ~r.ok THEN r
    ELSE decode_single_byte(encoding, Tail(bytes), errors,
            IF encoding \in {"cp1252", "windows-1252"} /\ Head(bytes) = 129
            THEN OnError(r, errors)
            ELSE [r EXCEPT !.text = Append(@, CodePoint(Head(bytes)))])

\* utf-8: 0xC3 starts a two-byte sequence and 0xAA, 0x81 continue one; a
\* start byte without continuation and a stray continuation byte are errors
RECURSIVE decode_utf8(_, _, _)
decode_utf8(bytes, errors, r) ==
    IF bytes = <<>> \/ ~r.ok THEN r
    ELSE IF Head(bytes) = 65
    THEN decode_utf8(Tail(bytes), errors, [r EXCEPT !.text = Append(@, "U+0041")])
    ELSE IF Head(bytes) = 195 /\ Len(bytes) >= 2 /\ bytes[2] \in {170, 129}
    THEN decode_utf8(Tail(Tail(bytes)), errors,
            [r EXCEPT !.text = Append(@, IF bytes[2] = 170 THEN "U+00EA" ELSE "U+00C1")])
    ELSE decode_utf8(Tail(bytes), errors, OnError(r, errors))

\* bytes.decode(encoding, errors)
decode(encoding, bytes, errors) ==
    IF encoding = "utf-8"
    THEN decode_utf8(bytes, errors, [ok |-> TRUE, text |-> <<>>])
    ELSE decode_single_byte(encoding, bytes, errors, [ok |-> TRUE, text |-> <<>>])

\* lines 55-76: every encoding of the list is tried with errors='replace';
\* an encoding that raises is passed over; after the list the fallback is
\* read with errors='ignore' and its failure is a ParsingError
RECURSIVE read_content(_, _)
read_content(doc, i) ==
    IF i > Len(PREFERRED_ORDER)
    THEN IF doc.readable
         THEN [raised |-> "", encoding |-> FALLBACK,
               text |-> decode(FALLBACK, doc.bytes, "ignore").text]
         ELSE [raised |-> "ParsingError", encoding |-> "", text |-> <<>>]
    ELSE LET r == decode(PREFERRED_ORDER[i], doc.bytes, "replace")
         IN  IF doc.readable /\ r.ok
             THEN [raised |-> "", encoding |-> PREFERRED_ORDER[i], text |-> r.text]
             ELSE read_content(doc, i + 1)

DecodeRequests ==
    {[kind |-> "decode", doc |-> [bytes |-> b, readable |-> ok]] :
        b \in UNION {[1..n -> DocBytes] : n \in 0..MaxBytes}, ok \in BOOLEAN}

Decode ==
    /\ request.kind = "decode"
    /\ answers' = Append(answers, [request |-> request,
                                    content |-> read_content(request.doc, 1)])
    /\ request' = NoRequest
    /\ UNCHANGED <<metricVars, parseVars, reportVars, cacheVars>>

SpecDecode == InitPure(DecodeRequests) /\ [][Decode]_vars

(***************************************************************************)
(* Reading the result graph.                                               *)
(***************************************************************************)
IsMetrica(r) == heap[r].kind = "Metrica"
MetricaRefs == {r \in 1..Len(heap) : IsMetrica(r)}
Returned == {results[i].ref : i \in 1..Len(results)} \ {None}

ChildIds(r) == [i \in 1..Len(heap[r].metricas) |-> heap[heap[r].metricas[i]].id]

RECURSIVE NoAncestorRepeat(_, _)
NoAncestorRepeat(r, ancestors) ==
    /\ heap[r].id \notin ancestors
    /\ \A i \in 1..Len(heap[r].metricas) :
          NoAncestorRepeat(heap[r].metricas[i], ancestors \cup {heap[r].id})

RECURSIVE UpperSeq(_)
UpperSeq(q) == IF q = <<>> THEN <<>> ELSE <<Upper(Head(q))>> \o UpperSeq(Tail(q))

RECURSIVE Dedup(_, _)
Dedup(q, acc) ==
    IF q = <<>> THEN acc
    ELSE Dedup(Tail(q), IF InSeq(Head(q), acc) THEN acc ELSE Append(acc, Head(q)))

\* a is obtained from b by deleting elements
RECURSIVE IsSubsequence(_, _)
IsSubsequence(a, b) ==
    IF a = <<>> THEN TRUE
    ELSE IF b = <<>> THEN FALSE
    ELSE IF Head(a) = Head(b) THEN IsSubsequence(Tail(a), Tail(b))
    ELSE IsSubsequence(a, Tail(b))

CorpusIds ==
    {Upper(corpus.metricIndex[i].anchor) : i \in 1..Len(corpus.metricIndex)}
    \cup UNION {{Upper(corpus.formula[x][i]) : i \in 1..Len(corpus.formula[x])} :
                x \in DOMAIN corpus.formula}

MutualAB == corpus.formula["A"] = <<"B">> /\ corpus.formula["B"] = <<"A">>

\* C1: when A's formula references B and B's formula references A, the
\* top-level extraction of A on an empty memo returns a composite A with
\* exactly one child, B, whose own child list is empty.
C1_MutualCycle ==
    \A i \in 1..Len(results) :
        (MutualAB /\ results[i].x = "A") =>
            /\ results[i].ref # None
            /\ LET a == heap[results[i].ref]
               IN  /\ a.tipo = "composto"
                   /\ Len(a.metricas) = 1
                   /\ Upper(heap[a.metricas[1]].id) = "B"
                   /\ heap[a.metricas[1]].metricas = <<>>

\* C2: in every returned metric tree no metric has the id of one of its
\* ancestors, whatever the letter case of the ids and whether or not a
\* child id is in the Metric index.
C2_NoAncestorRepeat ==
    \A r \in Returned : NoAncestorRepeat(r, {})

\* C9: every recursive call is made for the index entry whose id equals the
\* requested child id, and every child of a composite carries an id that its
\* formula lists.
C9_ChildFromRequestedEntry ==
    /\ (call.kind = "call" /\ stack # <<>>) => Upper(call.anchor) = Upper(call.mid)
    /\ \A r \in MetricaRefs :
          \A i \in 1..Len(heap[r].metricas) :
              InSeq(Upper(ChildIds(r)[i]), UpperSeq(heap[r].formula))

\* C10: the child list of a composite holds each metric id at most once and
\* follows the formula's child ids in document order, later repeats dropped.
C10_ChildrenDeduplicated ==
    \A r \in MetricaRefs :
        /\ \A i, j \in 1..Len(heap[r].metricas) :
              i # j => ChildIds(r)[i] # ChildIds(r)[j]
        /\ IsSubsequence(UpperSeq(ChildIds(r)), Dedup(UpperSeq(heap[r].formula), <<>>))

Busy == ~Quiet

\* C3: an extraction never nests deeper than the number of distinct metric
\* ids of the corpus plus one, and once started it always comes to an end.
C3_Terminates ==
    /\ [](Depth <= Cardinality(CorpusIds) + 1)
    /\ (Busy ~> Quiet)

\* a corpus whose three metrics reference one another in a ring has been
\* extracted to the end
C3_Witness ==
    /\ corpus.formula["A"] = <<"B">>
    /\ corpus.formula["B"] = <<"C">>
    /\ corpus.formula["C"] = <<"A">>
    /\ Len(results) = 1
    /\ Quiet

SameMetric(i, j) ==
    /\ results[i].x = results[j].x
    /\ results[i].ds # results[j].ds
    /\ results[i].ref # None
    /\ results[j].ref # None

\* C4: two extractions of the same metric under different dataset ids return
\* two distinct objects with the same id, name, formula, function and fact,
\* each carrying the dataset id it was requested with; assigning a dataset id
\* to one of them leaves the other, and what later memo hits return, as they
\* were.
C4_CopiesIndependent ==
    /\ \A i \in 1..Len(results) :
          (results[i].ref # None /\ results[i].ref \notin assigned) =>
              heap[results[i].ref].dataset_id = results[i].ds
    /\ \A i, j \in 1..Len(results) :
          SameMetric(i, j) =>
              LET a == heap[results[i].ref]
                  b == heap[results[j].ref]
              IN  /\ results[i].ref # results[j].ref
                  /\ a.id = b.id
                  /\ a.name = b.name
                  /\ a.formula = b.formula
                  /\ a.function = b.function
                  /\ a.fact = b.fact

\* the first returned object was assigned a dataset id and the same metric
\* was then returned from the memo for another dataset
C4_Witness ==
    /\ Len(results) = 2
    /\ SameMetric(1, 2)
    /\ results[1].ref \in assigned
    /\ heap[results[1].ref].dataset_id = "D9"

\* C6: a thread that checks the parse cache, reads it or inserts into it
\* holds the cache lock; once all calls have returned the cache holds a tree
\* for every path that was parsed, and a call made then for such a path does
\* not parse again.
C6_ParseCacheLocked ==
    /\ \A t \in Threads :
          ppc[t] \in {"check", "with_stats_hit", "inc_hits", "store_hits", "return_cached",
                      "insert"}
              => HTML_CACHE_LOCK = t
    /\ AllReturned =>
          \A p \in ParsedPaths :
              /\ p \in DOMAIN GLOBAL_HTML_CACHE
              /\ GLOBAL_HTML_CACHE[p] \in 1..ntrees
    /\ \A t \in Threads :
          pcall[t].quiet =>
              ppc[t] \in {"with_cache_check", "check", "with_stats_hit", "inc_hits", "store_hits",
                          "return_cached"}
    /\ \A i \in 1..Len(preturns) :
          preturns[i].quiet => preturns[i].tree # None

\* two threads have parsed the same path concurrently, both have returned,
\* and a later call for that path was answered from the cache
C6_Witness ==
    /\ AllReturned
    /\ Len(preturns) = 3
    /\ preturns[1].path = preturns[2].path
    /\ preturns[1].tree # None /\ preturns[2].tree # None
    /\ preturns[1].tree # preturns[2].tree
    /\ preturns[3].quiet
    /\ CACHE_STATS.hits = 1

(***************************************************************************)
(* The graph a caller holds: the returned reports with their datasets and  *)
(* metric trees, read through the references.                              *)
(***************************************************************************)
Deref(r) == IF r = None THEN <<>> ELSE <<heap[r]>>

RECURSIVE MetricTree(_)
MetricTree(r) ==
    LET m == heap[r]
    IN  [name |-> m.name, id |-> m.id, file_path |-> m.file_path,
         dataset_id |-> m.dataset_id, tipo |-> m.tipo, formula |-> m.formula,
         function |-> Deref(m.function), fact |-> Deref(m.fact),
         metricas |-> [i \in 1..Len(m.metricas) |-> MetricTree(m.metricas[i])]]

DataSetGraph(d) ==
    [name |-> d.name, id |-> d.id, file_path |-> d.file_path,
     relatorio_id |-> d.relatorio_id, applicationObject |-> d.applicationObject,
     metricas |-> [i \in 1..Len(d.metricas) |-> MetricTree(d.metricas[i])]]

RelatorioGraph(r) ==
    [name |-> r.name, id |-> r.id, file_path |-> r.file_path,
     datasets |-> [i \in 1..Len(r.datasets) |-> DataSetGraph(r.datasets[i])]]

GraphOf(o) ==
    [raised |-> o.raised,
     relatorios |-> [i \in 1..Len(o.relatorios) |-> RelatorioGraph(o.relatorios[i])]]

SameGraphs ==
    \A i, j \in 1..Len(outcomes) :
        outcomes[i].name = outcomes[j].name => GraphOf(outcomes[i]) = GraphOf(outcomes[j])

\* C5 as stated: two extractions of the same report yield structurally
\* identical graphs, in sequential mode and in batch mode.
C5_Idempotent == SameGraphs

AllDatasetsHaveIds ==
    \A a \in DOMAIN rcorpus.datasets :
        \A k \in 1..Len(rcorpus.datasets[a]) : ~needs_uuid(rcorpus, rcorpus.datasets[a][k])

\* C5 amended: two extractions of the same report yield structurally
\* identical graphs, in sequential mode and in batch mode, when every dataset
\* of the report has an id in the report document or resolves to an index
\* link that carries one.
C5_IdempotentWithIds == AllDatasetsHaveIds => SameGraphs

\* the second extraction, by the same extractor, has returned a report whose
\* first dataset holds a composite metric with a child
C5_Witness ==
    /\ batch.mode = "sequential"
    /\ AllDatasetsHaveIds
    /\ Len(outcomes) = 2
    /\ Len(outcomes[2].relatorios) = 1
    /\ Len(outcomes[2].relatorios[1].datasets) = 2
    /\ \E k \in 1..Len(outcomes[2].relatorios[1].datasets[1].metricas) :
          heap[outcomes[2].relatorios[1].datasets[1].metricas[k]].metricas # <<>>

\* C8 as stated: a call that extracts a report never raises because of a
\* missing file, an unlocatable section, an unresolved link or a circular
\* metric reference; the one exception that may leave it is the parse
\* failure of a file that cannot be read.
C8_NeverRaises ==
    \A i \in 1..Len(outcomes) : outcomes[i].raised \in {"", "ParsingError"}

InBatch(r) == \E k \in 1..Len(batch.relatorios) : batch.relatorios[k] = r

\* C7: once tasks exist the batch call does not raise, and what it returns
\* holds every report of every task that succeeded and no report whose
\* extraction raised.
C7_BatchSurvives ==
    /\ batch.tasks # <<>> => batch.state # "raised"
    /\ batch.state = "returned" =>
          \A t \in 1..Len(batch.tasks) :
              LET o == OutcomeOf(t)
              IN  IF o.raised = ""
                  THEN \A k \in 1..Len(o.relatorios) : InBatch(o.relatorios[k])
                  ELSE \A k \in 1..Len(batch.relatorios) :
                          batch.relatorios[k].id # o.failed

\* a parallel batch has returned the report of one task although the task
\* of the other report raised
C7_Witness ==
    /\ batch.mode = "parallel"
    /\ batch.state = "returned"
    /\ Len(batch.tasks) = 2
    /\ OutcomeOf(1).raised = "ParsingError"
    /\ OutcomeOf(2).raised = ""
    /\ Len(batch.relatorios) = 1
    /\ batch.relatorios[1].id = "R2"

(***************************************************************************)
(* What the resolvers answer.                                              *)
(***************************************************************************)
IdMatches(index, object_id) ==
    {i \in 1..Len(index) :
        \/ Upper(index[i].anchor) = Upper(object_id)
        \/ index[i].placeholder # "" /\ Upper(index[i].placeholder) = Upper(object_id)}

ExactMatches(index, object_name) ==
    {i \in 1..Len(index) : index[i].name = object_name}

\* C11: when find_link is given an id and a name and some index entry
\* matches the id by anchor or placeholder, case-insensitively, the first
\* such entry is returned whatever entry the name matches; the name decides
\* only when no entry matches the id.
C11_IdBeforeName ==
    \A k \in 1..Len(answers) :
        LET q == answers[k].request
            ids == IdMatches(q.index, q.id)
        IN  (q.resolver = "find_link" /\ q.id # "") =>
                /\ ids # {} =>
                      /\ answers[k].link.found
                      /\ answers[k].link.file = q.index[Min(ids)].file
                /\ (ids = {} /\ q.name = <<>>) => ~answers[k].link.found
                /\ (ids = {} /\ answers[k].link.found) =>
                      answers[k].link = find_by_name(q.index, q.name)

\* the id matched the second entry through its placeholder, in another
\* letter case, while the name was exactly the text of the first entry
C11_Witness ==
    \E k \in 1..Len(answers) :
        LET q == answers[k].request
        IN  /\ q.resolver = "find_link"
            /\ q.id = "b" /\ q.name = Mes
            /\ Len(q.index) = 2
            /\ q.index[1].name = Mes /\ q.index[1].anchor = "a"
            /\ q.index[2].name = Mesa /\ q.index[2].anchor = "B"
            /\ answers[k].link.file = "e2.html"

\* C12: resolving by name alone, an entry whose text equals the name exactly
\* is returned whenever the index has one, by the generic resolver and by
\* the Metric-index resolver.
C12_ExactNameFirst ==
    \A k \in 1..Len(answers) :
        LET q == answers[k].request
        IN  (q.id = "" /\ q.name # <<>> /\ ExactMatches(q.index, q.name) # {}) =>
                /\ answers[k].link.found
                /\ answers[k].link.name = q.name

\* C13: the name "Mes" resolves to an entry displayed as "Mes" with an
\* accent when the index has one and has no exact or case-insensitive match,
\* and never resolves to an entry displayed as "Mesa".
C13_AccentNotPrefix ==
    \A k \in 1..Len(answers) :
        LET q == answers[k].request
            texts == {q.index[i].name : i \in 1..Len(q.index)}
        IN  (q.resolver = "find_link" /\ q.id = "" /\ q.name = Mes) =>
                /\ (MesAccent \in texts /\ Mes \notin texts /\ MesLower \notin texts) =>
                        answers[k].link.found /\ answers[k].link.name = MesAccent
                /\ answers[k].link.found => answers[k].link.name # Mesa

(***************************************************************************)
(* What the encoding loop yields.                                          *)
(***************************************************************************)
ValidUnder(bytes) ==
    {i \in 1..Len(PREFERRED_ORDER) : decode(PREFERRED_ORDER[i], bytes, "strict").ok}

DataSetsBuilt ==
    UNION {UNION {{o.relatorios[i].datasets[k] : k \in 1..Len(o.relatorios[i].datasets)} :
                    i \in 1..Len(o.relatorios)} :
           o \in {outcomes[j] : j \in 1..Len(outcomes)}}

\* C15: every dataset of a returned report has one of the four kinds:
\* cube, report, shortcut, or the empty kind of an unresolved dataset.
C15_DatasetKinds ==
    \A d \in DataSetsBuilt :
        d.applicationObject \in {"CuboInteligente", "Report", "Shortcut", ""}

\* C19: what a batch returns holds no report twice, no two of its entries
\* have the same report id.
C19_EachReportOnce ==
    batch.state = "returned" =>
        \A i, j \in 1..Len(batch.relatorios) :
            batch.relatorios[i].id = batch.relatorios[j].id => i = j

\* the metrics of the tree under r, r included
RECURSIVE Under(_)
Under(r) == {r} \cup UNION {Under(heap[r].metricas[i]) : i \in 1..Len(heap[r].metricas)}

\* C18: every metric under a dataset of a returned report, at any depth,
\* carries the id of that dataset as its dataset id.
C18_DatasetScope ==
    \A d \in DataSetsBuilt :
        \A k \in 1..Len(d.metricas) :
            \A r \in Under(d.metricas[k]) : heap[r].dataset_id = d.id

\* C20: no metric of a returned report, in the metric list of a dataset or
\* in the child list of a metric, comes from a document position where no
\* definition section can be located.
C20_NoMetricWithoutSection ==
    \A d \in DataSetsBuilt :
        \A k \in 1..Len(d.metricas) :
            \A r \in Under(d.metricas[k]) :
                find_definition_section(corpus.docs[heap[r].file_path.file],
                                        heap[r].file_path.anchor) # 0

\* a metric tree without the dataset ids
RECURSIVE MetricShape(_)
MetricShape(r) ==
    LET m == heap[r]
    IN  [name |-> m.name, id |-> m.id, file_path |-> m.file_path,
         tipo |-> m.tipo, formula |-> m.formula,
         function |-> Deref(m.function), fact |-> Deref(m.fact),
         metricas |-> [i \in 1..Len(m.metricas) |-> MetricShape(m.metricas[i])]]

ShapeOf(r) == IF r = None THEN <<>> ELSE <<MetricShape(r)>>

\* C17: the tree returned for a metric, dataset ids aside, is the same in
\* every extraction of it: from the memo, after other metrics were
\* extracted, or by an extractor whose memo is empty.
C17_MemoTransparent ==
    \A i, j \in 1..Len(results) :
        results[i].x = results[j].x => ShapeOf(results[i].ref) = ShapeOf(results[j].ref)

\* the ids a frame of the stack has in its visiting set are the ids of the
\* metrics on the path from the root to it
PerPath ==
    \A k \in 1..Len(stack) : stack[k].visited = {stack[j].key[1] : j \in 1..k}

\* C14: when two children of a returned composite both reference a metric
\* that is neither the composite nor one of the two, that metric is a child
\* of both, and the visiting set of an extraction under way holds the ids of
\* its path only.
C14_SiblingsShareChild ==
    /\ PerPath
    /\ \A r \in Returned \ {None} :
          \A p, q \in 1..Len(heap[r].metricas) :
              LET c1 == heap[heap[r].metricas[p]]
                  c2 == heap[heap[r].metricas[q]]
              IN  \A d \in {Metrics[i] : i \in 1..Len(Metrics)} :
                     (/\ p # q
                      /\ InSeq(d, corpus.formula[c1.id])
                      /\ InSeq(d, corpus.formula[c2.id])
                      /\ d \notin {heap[r].id, c1.id, c2.id})
                     => /\ d \in {ChildIds(heap[r].metricas[p])[i] :
                                     i \in 1..Len(c1.metricas)}
                        /\ d \in {ChildIds(heap[r].metricas[q])[i] :
                                     i \in 1..Len(c2.metricas)}

LowerText(t) == [i \in 1..Len(t) |-> LowerChar(t[i])]

CaseMatches(index, object_name) ==
    {i \in 1..Len(index) : LowerText(index[i].name) = LowerText(object_name)}

\* C21: resolving by name alone, when no entry has exactly the text of the
\* name and some entry equals it up to letter case, the first such entry is
\* returned, wherever an entry that is equal only after accent stripping
\* stands in the index.
C21_CaseBeforeAccent ==
    \A k \in 1..Len(answers) :
        LET q == answers[k].request
            ci == CaseMatches(q.index, q.name)
        IN  (/\ q.resolver = "find_link" /\ q.id = "" /\ q.name # <<>>
             /\ ExactMatches(q.index, q.name) = {} /\ ci # {})
            => /\ answers[k].link.found
               /\ answers[k].link.file = q.index[Min(ci)].file

\* the score the fuzzy step is said to give a candidate, as a fraction:
\* len(query)/len(candidate) when the candidate contains the query, 1/2 more
\* when it starts with it, 1/10 more for each shared word
ClaimedScore(query_norm, candidate_norm) ==
    LET shared == Cardinality(SplitWords(query_norm, <<>>, {})
                                \cap SplitWords(candidate_norm, <<>>, {}))
        c == Len(candidate_norm)
    IN  IF c = 0 THEN <<0, 1>>
        ELSE <<(IF Contains(query_norm, candidate_norm) THEN 10 * Len(query_norm) ELSE 0)
                 + (IF Contains(query_norm, candidate_norm)
                       /\ StartsWith(candidate_norm, query_norm) THEN 5 * c ELSE 0)
                 + shared * c,
               10 * c>>

\* the entry the fuzzy step is said to return: the earliest of those with
\* the highest accepted score, 0 when no score is accepted
ClaimedBest(index, name) ==
    LET sc(i) == ClaimedScore(normalize_for_matching(name),
                              normalize_for_matching(index[i].name))
        ok == {i \in 1..Len(index) : ScoreAccepted(sc(i))}
        top == {i \in ok : \A j \in ok : ~ScoreGreater(sc(j), sc(i))}
    IN  IF top = {} THEN 0 ELSE Min(top)

\* C22: when neither the exact nor the normalized step finds an entry, the
\* entry returned is the earliest of those whose score (containment ratio,
\* plus 0.5 for a prefix, plus 0.1 per shared word) is highest and at least
\* the threshold, and nothing is returned when no score reaches it.
C22_FuzzyScore ==
    \A k \in 1..Len(answers) :
        LET q == answers[k].request
            best == ClaimedBest(q.index, q.name)
        IN  (/\ q.resolver = "find_link" /\ q.id = "" /\ q.name # <<>>
             /\ NormalizedIs(q.index, normalize_for_matching(q.name)) = {})
            => IF best = 0 THEN ~answers[k].link.found
               ELSE /\ answers[k].link.found
                    /\ answers[k].link.file = q.index[best].file

\* the id and the memo key of the extraction that is about to start
CallId == IF call.mid # "" THEN call.mid ELSE call.anchor
CallKey == cache_key(CallId, call.ds, call.name)

MemoHit ==
    /\ call.kind = "call"
    /\ ~check_circular_reference(CallId, call.visited)
    /\ CallKey \in DOMAIN memo

\* C23: an extraction whose key is in the memo and whose id is not in the
\* visiting set leaves the memo and every existing object as they are,
\* builds one object and nothing else (no Function, no Fact, no child
\* extraction), and returns it: a Metrica with the requested dataset id and
\* the function, fact and children of the memo entry.
C23_MemoHitFrame ==
    [][MemoHit =>
         LET cached == memo[CallKey]
             new == Len(heap) + 1
         IN  /\ memo' = memo
             /\ Len(heap') = new
             /\ SubSeq(heap', 1, Len(heap)) = heap
             /\ heap'[new].kind = "Metrica"
             /\ heap'[new].dataset_id = call.ds
             /\ heap'[new].id = heap[cached].id
             /\ heap'[new].name = heap[cached].name
             /\ heap'[new].function = heap[cached].function
             /\ heap'[new].fact = heap[cached].fact
             /\ heap'[new].metricas = heap[cached].metricas
             /\ Len(stack') = Len(stack)
             /\ call' = NoCall
             /\ IF stack = <<>>
                THEN results' = Append(results, [x |-> cur.x, ds |-> cur.ds, ref |-> new])
                ELSE /\ results' = results
                     /\ stack'[Len(stack)].comps = Append(stack[Len(stack)].comps, new)]_vars

\* the second extraction of a composite was served from the memo, for
\* another dataset: a new object with the children of the first
C23_Witness ==
    /\ Len(results) = 2
    /\ results[1].x = results[2].x
    /\ results[1].ref # None /\ results[2].ref # None
    /\ results[2].ref = Len(heap)
    /\ results[1].ref # results[2].ref
    /\ heap[results[1].ref].dataset_id = "D1"
    /\ heap[results[2].ref].dataset_id = "D2"
    /\ heap[results[2].ref].metricas # <<>>
    /\ heap[results[2].ref].metricas = heap[results[1].ref].metricas

\* C24: the result comes from the cube index when it has a matching link,
\* else from the report index when that has one, else from the shortcut
\* index, and there is no result when none has one.
C24_IndexOrder ==
    \A k \in 1..Len(answers) :
        LET q == answers[k].request
            res == answers[k].result
            c == MatchDsLinks(q.cubo, q.id, q.name)
            r == MatchDsLinks(q.relatorio, q.id, q.name)
            a == MatchDsLinks(q.atalho, q.id, q.name)
        IN  /\ c # {} => res.source = "CuboInteligente"
                          /\ res.file_path.file = q.cubo[Min(c)].file
            /\ (c = {} /\ r # {}) => res.source = "Documento"
                                       /\ res.file_path.file = q.relatorio[Min(r)].file
            /\ (c = {} /\ r = {} /\ a # {}) => res.source = "Shortcut"
                                                 /\ res.file_path.file = q.atalho[Min(a)].file
            /\ (c = {} /\ r = {} /\ a = {}) => ~res.found

\* the cube index, the report index and the shortcut index all hold a link
\* of the dataset and the result is the link of the cube index
C24_Witness ==
    \E k \in 1..Len(answers) :
        LET q == answers[k].request
        IN  /\ q.id = "D2"
            /\ Len(q.cubo) = 2 /\ q.cubo[1].anchor = "D10" /\ q.cubo[2].anchor = "D2"
            /\ Len(q.relatorio) = 1 /\ q.relatorio[1].anchor = "D2"
            /\ Len(q.atalho) = 1 /\ q.atalho[1].anchor = "D2"
            /\ answers[k].result.source = "CuboInteligente"
            /\ answers[k].result.file_path = Path(DsFileAt("cubo", 2), "D2")

\* C25: a dataset resolved with an id is resolved to a link of that id.
C25_IdOnly ==
    \A k \in 1..Len(answers) :
        LET q == answers[k].request
        IN  (q.id # "" /\ answers[k].result.found) =>
                answers[k].result.file_path.anchor = q.id

\* C26: when the requested anchor id equals, up to letter case, the name of
\* an anchor tag of the document that is inside a row, the section returned
\* is the row of the first such anchor tag.
C26_AnchorAnyCase ==
    \A k \in 1..Len(answers) :
        LET q == answers[k].request
            tags == {i \in 1..Len(q.doc) : /\ q.doc[i].kind = "a"
                                            /\ LowerId(q.doc[i].name) = LowerId(q.anchor)
                                            /\ q.doc[i].container = "tr"}
        IN  (q.anchor # "" /\ tags # {}) =>
                answers[k].section = [kind |-> "tr", at |-> Min(tags)]

\* C27: once every parse call has returned, hits plus misses is the number
\* of calls made on files that exist, and misses is at least the number of
\* paths in the cache.
C27_StatsCount ==
    AllReturned =>
        /\ CACHE_STATS.hits + CACHE_STATS.misses
              = Cardinality({i \in 1..Len(preturns) : preturns[i].raised # "MissingFileError"})
        /\ CACHE_STATS.misses >= Cardinality(DOMAIN GLOBAL_HTML_CACHE)

\* three calls on files that exist have returned, two of them having parsed
\* the same path, and the counters show three misses for two cached paths
C27_Witness ==
    /\ AllReturned
    /\ Len(preturns) = 3
    /\ \A i \in 1..3 : preturns[i].tree # None
    /\ preturns[1].path = preturns[2].path
    /\ preturns[1].thread # preturns[2].thread
    /\ CACHE_STATS = [hits |-> 0, misses |-> 3]
    /\ Cardinality(DOMAIN GLOBAL_HTML_CACHE) = 2

\* a thread holds the cache lock only inside the with blocks of lines 45-49
\* and 79-80 and the stats lock only inside those of lines 47-48 and 51-52
LocksHeldInBlocks ==
    \A t \in Threads :
        /\ HTML_CACHE_LOCK = t =>
              ppc[t] \in {"check", "with_stats_hit", "inc_hits", "store_hits", "return_cached",
                          "insert"}
        /\ HTML_STATS_LOCK = t =>
              ppc[t] \in {"inc_hits", "inc_misses", "store_hits", "store_misses"}

\* while a call is under way some thread can execute a statement
SomeRunnable == (\E t \in Threads : ppc[t] # "idle") => \E t \in Threads : Runnable(t)

\* C28: no thread waits for the cache lock while it holds the stats lock,
\* a lock is held only inside its with block and so released on every exit,
\* the calls under way are never all blocked, and every call under way
\* eventually returns or raises.
C28_NoDeadlock ==
    /\ [](LocksHeldInBlocks /\ SomeRunnable)
    /\ \A t \in Threads : (ppc[t] # "idle") ~> (ppc[t] = "idle")

\* one thread holds both locks on the hit path while the other waits for the
\* cache lock
C28_Witness ==
    \E t, u \in Threads :
        /\ HTML_CACHE_LOCK = t /\ HTML_STATS_LOCK = t /\ ppc[t] = "store_hits"
        /\ ppc[u] = "with_cache_insert"

\* C29: every namespace of the cache holds at most max_size items.
C29_SizeLimit == \A n \in DOMAIN caches : Len(caches[n]) <= max_size

\* a set has evicted an item of a full namespace
C29_Witness ==
    /\ returned.op = "set" /\ returned.namespace = "default" /\ returned.key = "k3"
    /\ max_size = 2
    /\ "reports" \in DOMAIN caches
    /\ KeysOf(caches["reports"]) = {"k1", "k2"}
    /\ KeysOf(caches["default"]) = {"k1", "k3"}
    /\ touched["default"] = <<"k1", "k3">>

\* C30: when a set finds its namespace holding more than max_size keys, the
\* keys it leaves are the max_size keys most recently set or successfully
\* got, the key just set being one of them when max_size is at least 1.
C30_EvictsLeastRecent ==
    [][\A key \in Keys, value \in Values, namespace \in Namespaces :
          (/\ set(key, value, namespace)
           /\ namespace \in DOMAIN caches
           /\ Cardinality(KeysOf(caches[namespace]) \cup {key}) > max_size) =>
              LET order == Touch(touched[namespace], key)
              IN  /\ KeysOf(caches'[namespace]) =
                        {order[i] : i \in (Len(order) - max_size + 1)..Len(order)}
                  /\ max_size >= 1 => key \in KeysOf(caches'[namespace])]_vars

\* k1 was set before k2, then got, and the set of k3 has evicted k2
C30_Witness ==
    /\ returned = [op |-> "set", key |-> "k3", namespace |-> "reports", value |-> "None"]
    /\ max_size = 2
    /\ caches["reports"] = <<[key |-> "k1", value |-> "v1"], [key |-> "k3", value |-> "v2"]>>
    /\ touched["reports"] = <<"k1", "k3">>

====
